---------------------------- MODULE Spec2Model ----------------------------
(***************************************************************************)
(* Text2SQL service: the LangGraph workflow of WorkflowOrchestrator, its   *)
(* node functions and the service call above it.                           *)
(*                                                                         *)
(* Text is a sequence of characters (one-character strings; the backtick   *)
(* is written Backtick).  The shared workflow state is a function from the *)
(* names of the keys that have been written to their values, as the        *)
(* Python dict it models.                                                  *)
(***************************************************************************)
EXTENDS Integers, Sequences, FiniteSets, TLC

(***************************************************************************)
(* Bounds of the model.                                                    *)
(***************************************************************************)
\* largest max_iterations a request is started with
MaxIterations == 2

(***************************************************************************)
(* Text: characters, str methods used by the code.                         *)
(***************************************************************************)
Backtick == "BACKTICK"

\* the whitespace characters of the model's alphabet (str.strip, \s)
Whitespace == {" ", "\n", "\t", "\r"}

Digits == <<"0", "1", "2", "3", "4", "5", "6", "7", "8", "9">>

IsDigit(c) == \E i \in 1..10 : Digits[i] = c

DigitValue(c) == (CHOOSE i \in 1..10 : Digits[i] = c) - 1

LowerLetters ==
    <<"a", "b", "c", "d", "e", "f", "g", "h", "i", "j", "k", "l", "m", "n", "o", "p", "q", "r",
      "s", "t", "u", "v", "w", "x", "y", "z">>

UpperLetters ==
    <<"A", "B", "C", "D", "E", "F", "G", "H", "I", "J", "K", "L", "M", "N", "O", "P", "Q", "R",
      "S", "T", "U", "V", "W", "X", "Y", "Z">>

IsLower(c) == \E i \in 1..26 : LowerLetters[i] = c

IsUpper(c) == \E i \in 1..26 : UpperLetters[i] = c

\* a character of the regex class \w
IsWordChar(c) == IsLower(c) \/ IsUpper(c) \/ IsDigit(c) \/ c = "_"

UpperChar(c) ==
    IF IsLower(c) THEN UpperLetters[CHOOSE i \in 1..26 : LowerLetters[i] = c] ELSE c

\* str.upper()
Upper(t) == [i \in 1..Len(t) |-> UpperChar(t[i])]

\* t[i:] of Python for a 1-based first kept position
Drop(t, n) == SubSeq(t, n + 1, Len(t))

\* str.lstrip(chars) / str.rstrip(chars) for a set of characters
LStripSet(t, cs) ==
    IF \A i \in 1..Len(t) : t[i] \in cs
    THEN <<>>
    ELSE Drop(t, (CHOOSE i \in 1..Len(t) :
                      t[i] \notin cs /\ \A j \in 1..(i - 1) : t[j] \in cs) - 1)

RStripSet(t, cs) ==
    IF \A i \in 1..Len(t) : t[i] \in cs
    THEN <<>>
    ELSE SubSeq(t, 1, CHOOSE i \in 1..Len(t) :
                          t[i] \notin cs /\ \A j \in (i + 1)..Len(t) : t[j] \in cs)

\* str.rstrip() and str.strip() with no argument
RStrip(t) == RStripSet(t, Whitespace)

Strip(t) == LStripSet(RStripSet(t, Whitespace), Whitespace)

\* str.startswith / str.endswith
StartsWith(t, p) == Len(t) >= Len(p) /\ SubSeq(t, 1, Len(p)) = p

EndsWith(t, p) == Len(t) >= Len(p) /\ SubSeq(t, Len(t) - Len(p) + 1, Len(t)) = p

\* p occurs in t at position i
OccursAt(t, p, i) == i >= 1 /\ i + Len(p) - 1 <= Len(t) /\ SubSeq(t, i, i + Len(p) - 1) = p

\* "p in t"
Contains(t, p) == \E i \in 1..(Len(t) + 1) : OccursAt(t, p, i)

\* str.find(p): the first position (1-based) of p in t, 0 when there is none
Find(t, p) ==
    IF Contains(t, p)
    THEN CHOOSE i \in 1..(Len(t) + 1) :
             OccursAt(t, p, i) /\ \A j \in 1..(i - 1) : ~OccursAt(t, p, j)
    ELSE 0

\* str.replace(old, new), old not empty: every non-overlapping occurrence, left to right
RECURSIVE Replace(_, _, _)
Replace(t, old, new) ==
    IF Find(t, old) = 0
    THEN t
    ELSE SubSeq(t, 1, Find(t, old) - 1) \o new
             \o Replace(Drop(t, Find(t, old) + Len(old) - 1), old, new)

\* int(digits)
RECURSIVE TextToInt(_)
TextToInt(ds) ==
    IF ds = <<>> THEN 0
    ELSE 10 * TextToInt(SubSeq(ds, 1, Len(ds) - 1)) + DigitValue(ds[Len(ds)])

\* str(n) for n >= 0
RECURSIVE IntToText(_)
IntToText(n) ==
    IF n < 10 THEN <<Digits[n + 1]>>
    ELSE IntToText(n \div 10) \o <<Digits[(n % 10) + 1]>>

\* sep.join(parts)
RECURSIVE Join(_, _)
Join(parts, sep) ==
    IF parts = <<>> THEN <<>>
    ELSE IF Len(parts) = 1 THEN parts[1]
    ELSE parts[1] \o sep \o Join(Tail(parts), sep)

\* str.split(sep), sep not empty: the pieces between the occurrences of sep
RECURSIVE Split(_, _)
Split(t, sep) ==
    IF Find(t, sep) = 0
    THEN <<t>>
    ELSE <<SubSeq(t, 1, Find(t, sep) - 1)>> \o Split(Drop(t, Find(t, sep) + Len(sep) - 1), sep)

\* [x.strip() for x in parts if x.strip()]
RECURSIVE StripNonEmpty(_)
StripNonEmpty(parts) ==
    IF parts = <<>> THEN <<>>
    ELSE (IF Strip(parts[1]) = <<>> THEN <<>> ELSE <<Strip(parts[1])>>)
             \o StripNonEmpty(Tail(parts))

(***************************************************************************)
(* SQLValidator: the normalizer (clean_sql_query, _ensure_limit).          *)
(***************************************************************************)
\* MAX_QUERY_ROWS of sql_validator.py
MAX_QUERY_ROWS == 1000

DigitSet == {Digits[i] : i \in 1..10}

LimitWord == <<"L", "I", "M", "I", "T">>

Fence == <<Backtick, Backtick, Backtick>>

\* length of the longest suffix of t made of characters of cs
TrailLen(t, cs) == Len(t) - Len(RStripSet(t, cs))

\* the trailing-clause match without IGNORECASE
LimitMatchStartCaseSensitive(w) ==
    LET nd     == TrailLen(w, DigitSet)
        noDig  == SubSeq(w, 1, Len(w) - nd)
        ns     == TrailLen(noDig, Whitespace)
        noWs   == SubSeq(noDig, 1, Len(noDig) - ns)
        start  == Len(noWs) - 4
    IN  IF /\ nd >= 1
           /\ ns >= 1
           /\ Len(noWs) >= 5
           /\ SubSeq(noWs, start, Len(noWs)) = LimitWord
           /\ (start = 1 \/ ~IsWordChar(noWs[start - 1]))
        THEN start
        ELSE 0

\* limit_pattern.search(working_query): the position of the L of a trailing
\* LIMIT <digits> clause matched by \bLIMIT\s+(\d+)\s*$ (IGNORECASE), 0 when none;
\* w has no trailing whitespace when this is applied
LimitMatchStart(w) ==
    LET nd     == TrailLen(w, DigitSet)
        noDig  == SubSeq(w, 1, Len(w) - nd)
        ns     == TrailLen(noDig, Whitespace)
        noWs   == SubSeq(noDig, 1, Len(noDig) - ns)
        start  == Len(noWs) - 4
    IN  IF /\ nd >= 1
           /\ ns >= 1
           /\ Len(noWs) >= 5
           /\ Upper(SubSeq(noWs, start, Len(noWs))) = LimitWord
           /\ (start = 1 \/ ~IsWordChar(noWs[start - 1]))
        THEN start
        ELSE 0

\* match.group(1): the digits of the matched clause
LimitMatchDigits(w) == SubSeq(w, Len(w) - TrailLen(w, DigitSet) + 1, Len(w))

\* _ensure_limit appending a clause without looking for one
EnsureLimitAlwaysAppend(sql_query, max_rows) ==
    IF sql_query = <<>>
    THEN sql_query
    ELSE RStrip(RStripSet(RStrip(sql_query), {";"}))
             \o <<" ">> \o LimitWord \o <<" ">> \o IntToText(max_rows)

\* _ensure_limit leaving a clause above the cap as it is
EnsureLimitNoReduce(sql_query, max_rows) ==
    IF sql_query = <<>>
    THEN sql_query
    ELSE LET working_query == RStrip(RStripSet(RStrip(sql_query), {";"}))
         IN  IF LimitMatchStart(working_query) # 0
             THEN working_query
             ELSE working_query \o <<" ">> \o LimitWord \o <<" ">> \o IntToText(max_rows)

\* _ensure_limit leaving the trailing semicolon where it is
EnsureLimitKeepsSemicolon(sql_query, max_rows) ==
    IF sql_query = <<>>
    THEN sql_query
    ELSE LET working_query == RStrip(sql_query)
             m             == LimitMatchStart(working_query)
         IN  IF m # 0
             THEN IF TextToInt(LimitMatchDigits(working_query)) > max_rows
                  THEN SubSeq(working_query, 1, m - 1)
                           \o LimitWord \o <<" ">> \o IntToText(max_rows)
                  ELSE working_query
             ELSE working_query \o <<" ">> \o LimitWord \o <<" ">> \o IntToText(max_rows)

\* SQLValidator._ensure_limit
EnsureLimit(sql_query, max_rows) ==
    IF sql_query = <<>>
    THEN sql_query
    ELSE LET working_query == RStrip(RStripSet(RStrip(sql_query), {";"}))
             m             == LimitMatchStart(working_query)
         IN  IF m # 0
             THEN IF TextToInt(LimitMatchDigits(working_query)) > max_rows
                  THEN SubSeq(working_query, 1, m - 1)
                           \o LimitWord \o <<" ">> \o IntToText(max_rows)
                  ELSE working_query
             ELSE working_query \o <<" ">> \o LimitWord \o <<" ">> \o IntToText(max_rows)

\* the fences removed without the rest of the opening line
StripFencesKeepTag(q) ==
    LET opened == IF StartsWith(q, Fence) THEN Drop(q, 3) ELSE q
    IN  IF EndsWith(opened, Fence) THEN SubSeq(opened, 1, Len(opened) - 3) ELSE opened

\* the markdown fences removed by clean_sql_query
StripFences(q) ==
    LET opened == IF StartsWith(q, Fence)
                  THEN IF Find(q, <<"\n">>) # 0
                       THEN Drop(q, Find(q, <<"\n">>))
                       ELSE Drop(q, 3)
                  ELSE q
    IN  IF EndsWith(opened, Fence) THEN SubSeq(opened, 1, Len(opened) - 3) ELSE opened

\* SQLValidator.clean_sql_query
CleanSqlQuery(sql_query) ==
    IF sql_query = <<>>
    THEN <<>>
    ELSE EnsureLimit(Strip(StripFences(Strip(sql_query))), MAX_QUERY_ROWS)

\* a Python value handed to clean_sql_query: its type and its str() text
PyStr(t) == [kind |-> "str", text |-> t]

PyNone == [kind |-> "NoneType", text |-> <<"N", "o", "n", "e">>]

PyInt == [kind |-> "int", text |-> <<"5">>]

\* clean_sql_query turning a value that is no str into its text
CleanSqlQueryAnyCoerce(value) == CleanSqlQuery(value.text)

\* clean_sql_query on any value: `not isinstance(sql_query, str)` gives ""
CleanSqlQueryAny(value) ==
    IF value.kind # "str"
    THEN <<>>
    ELSE CleanSqlQuery(value.text)

(***************************************************************************)
(* Texts of the code (literals) and of the collaborators (responses).      *)
(***************************************************************************)
UnanswerableMarker ==
    <<"U", "N", "A", "N", "S", "W", "E", "R", "A", "B", "L", "E">>

UnanswerableTag ==
    <<"U", "N", "A", "N", "S", "W", "E", "R", "A", "B", "L", "E", ":">>

DefaultReason ==
    <<"T", "h", "e", " ", "r", "e", "q", "u", "e", "s", "t", "e", "d", " ", "d", "a", "t", "a",
      " ", "i", "s", " ", "n", "o", "t", " ", "a", "v", "a", "i", "l", "a", "b", "l", "e", " ",
      "i", "n", " ", "t", "h", "e", " ", "d", "a", "t", "a", "b", "a", "s", "e", ".">>

UnanswerablePrefix ==
    <<"I", " ", "c", "a", "n", "n", "o", "t", " ", "a", "n", "s", "w", "e", "r", " ", "t", "h",
      "i", "s", " ", "q", "u", "e", "s", "t", "i", "o", "n", " ", "b", "e", "c", "a", "u", "s",
      "e", ":", " ">>

TopicHint ==
    <<"\n", "\n", "T", "h", "e", " ", "d", "a", "t", "a", "b", "a", "s", "e", " ", "c", "o",
      "n", "t", "a", "i", "n", "s", " ", "i", "n", "f", "o", "r", "m", "a", "t", "i", "o", "n",
      " ", "a", "b", "o", "u", "t", ":", " ", "s", "a", "l", "e", "s", ",", " ", "p", "r", "o",
      "d", "u", "c", "t", "s", ",", " ", "s", "t", "o", "r", "e", "s", ",", " ", "i", "n", "v",
      "e", "n", "t", "o", "r", "y", ",", " ", "f", "o", "r", "e", "c", "a", "s", "t", "s", ",",
      " ", "p", "r", "o", "m", "o", "t", "i", "o", "n", "s", ",", " ", "a", "n", "d", " ", "p",
      "r", "i", "c", "i", "n", "g", ".", " ", "P", "l", "e", "a", "s", "e", " ", "t", "r", "y",
      " ", "a", "s", "k", "i", "n", "g", " ", "a", "b", "o", "u", "t", " ", "o", "n", "e", " ",
      "o", "f", " ", "t", "h", "e", "s", "e", " ", "t", "o", "p", "i", "c", "s", ".">>

NoDataSummary ==
    <<"N", "o", " ", "d", "a", "t", "a", " ", "a", "v", "a", "i", "l", "a", "b", "l", "e", " ",
      "t", "o", " ", "s", "u", "m", "m", "a", "r", "i", "z", "e", ".">>

NoResultsSummary ==
    <<"T", "h", "e", " ", "q", "u", "e", "r", "y", " ", "r", "e", "t", "u", "r", "n", "e", "d",
      " ", "n", "o", " ", "r", "e", "s", "u", "l", "t", "s", ".">>

FallbackHead ==
    <<"Q", "u", "e", "r", "y", " ", "r", "e", "t", "u", "r", "n", "e", "d", " ">>

FallbackRows ==
    <<" ", "r", "o", "w", "s", " ", "w", "i", "t", "h", " ">>

FallbackColumns ==
    <<" ", "c", "o", "l", "u", "m", "n", "s", ":", " ">>

ValidWord ==
    <<"V", "A", "L", "I", "D">>

InvalidWord ==
    <<"I", "N", "V", "A", "L", "I", "D">>

NumberingChars ==
    <<"0", "1", "2", "3", "4", "5", "6", "7", "8", "9", ".", "-", ")", " ">>

\* completions the provider gives to the generation prompt
GenFenced ==
    <<Backtick, Backtick, Backtick, "s", "q", "l", "\n", "S", "E", "L", "E", "C", "T", " ",
      "1", ";", "\n", Backtick, Backtick, Backtick>>

GenOverLimit ==
    <<"S", "E", "L", "E", "C", "T", " ", "1", " ", "L", "I", "M", "I", "T", " ", "5", "0", "0",
      "0">>

GenRefusal ==
    <<"U", "N", "A", "N", "S", "W", "E", "R", "A", "B", "L", "E", ":", " ", "m", "i", "s", "s",
      "i", "n", "g", " ", "c", "u", "s", "t", "o", "m", "e", "r", "s", " ", "t", "a", "b", "l",
      "e">>

GenRefusalLower ==
    <<"u", "n", "a", "n", "s", "w", "e", "r", "a", "b", "l", "e", ":", " ", "n", "o", " ", "u",
      "s", "e", "r", "s">>

GenBlank ==
    <<" ">>

\* request texts
InputQuestion ==
    <<"S", "h", "o", "w", " ", "t", "o", "t", "a", "l", " ", "s", "a", "l", "e", "s">>

InputBlank ==
    <<" ", " ">>

\* contents of the metadata file
SchemaText ==
    <<"s", "a", "l", "e", "s", "(", "i", "d", ",", " ", "a", "m", "o", "u", "n", "t", ")", "\n">>

BlankFile ==
    <<" ", "\n">>

\* completions the provider gives to the summary and follow-up prompts
SummaryShort ==
    <<"S", "a", "l", "e", "s", " ", "a", "r", "e", " ", "u", "p", ".">>

SummarySentences ==
    <<"a", ".", " ", "b", ".", " ", "c", ".", " ", "d">>

SummaryLong ==
    <<"a", "\n", "b", "\n", "\n", "c", "\n", "d", "\n", "e", "\n", "f">>

FollowupText ==
    <<"1", ".", " ", "a", "?", "\n", "-", " ", "b", "?", "\n", "\n", "3", ")", " ", "c", "?",
      "\n", "d", "?">>

\* column names of the rows the database returns
ColAmount ==
    <<"a", "m", "o", "u", "n", "t">>

ColId ==
    <<"i", "d">>

(***************************************************************************)
(* The workflow state (Text2SQLState, a dict) and the exceptions.          *)
(***************************************************************************)
\* state.get(k, d)
Get(s, k, d) == IF k \in DOMAIN s THEN s[k] ELSE d

\* the merge of a node's partial update u into the state s
Merge(s, u) == [k \in (DOMAIN s) \cup (DOMAIN u) |-> IF k \in DOMAIN u THEN u[k] ELSE s[k]]

EmptyDict == [k \in {} |-> 0]

\* an exception: its class, error_code, status_code, details["workflow_step"]
\* and the class of the first exception of its "from" chain
Exception(cls, code, status, step, root) ==
    [cls |-> cls, error_code |-> code, status_code |-> status, workflow_step |-> step,
     root |-> root]

NoException == Exception("none", "none", 0, "none", "none")

ValueError == Exception("ValueError", "none", 0, "none", "ValueError")

\* the failure of a collaborator's own call (OpenAI client, psycopg2)
ProviderError == Exception("ProviderError", "none", 0, "none", "ProviderError")

\* raise LLMClientException(...) from e
LLMClientException(e) == Exception("LLMClientException", "LLM_CLIENT_ERROR", 502, "none", e.root)

\* raise LLMClientException("Empty response from LLM")
EmptyResponseException ==
    Exception("LLMClientException", "LLM_CLIENT_ERROR", 502, "none", "LLMClientException")

\* raise SQLExecutionException(...) from e
SQLExecutionException(e) ==
    Exception("SQLExecutionException", "SQL_EXECUTION_ERROR", 400, "none", e.root)

\* raise SQLExecutionException(...) with no cause
NoQueryException ==
    Exception("SQLExecutionException", "SQL_EXECUTION_ERROR", 400, "none",
              "SQLExecutionException")

\* raise MetadataLoadException(...)
MetadataLoadException ==
    Exception("MetadataLoadException", "METADATA_LOAD_ERROR", 500, "none",
              "MetadataLoadException")

\* raise SQLValidationException(...) from e
SQLValidationException(e) ==
    Exception("SQLValidationException", "SQL_VALIDATION_ERROR", 400, "none", e.root)

\* raise WorkflowException(..., step=step) from e
WorkflowException(step, e) == Exception("WorkflowException", "WORKFLOW_ERROR", 500, step, e.root)

\* what a function gives: a raised exception, or a value; and the number of
\* calls it made to its collaborator
Raised(e, n) == [raised |-> TRUE, exc |-> e, value |-> EmptyDict, called |-> n]

Returned(v, n) == [raised |-> FALSE, exc |-> NoException, value |-> v, called |-> n]

(***************************************************************************)
(* LLMClient.generate_completion: resp is what the provider does,          *)
(* [fail |-> BOOLEAN, content |-> Text].                                   *)
(***************************************************************************)
LlmFailure == [fail |-> TRUE, content |-> <<>>]

LlmAnswer(t) == [fail |-> FALSE, content |-> t]

GenerateCompletion(resp) ==
    IF resp.fail
    THEN Raised(LLMClientException(ProviderError), 1)
    ELSE IF resp.content = <<>>
    THEN Raised(LLMClientException(EmptyResponseException), 1)
    ELSE Returned(Strip(resp.content), 1)

(***************************************************************************)
(* MetadataLoader.load_metadata: file is the default metadata file,        *)
(* [exists |-> BOOLEAN, content |-> Text].                                 *)
(***************************************************************************)
\* load_metadata returning the content of a file that holds no schema
LoadMetadataAcceptsEmpty(file) ==
    IF ~file.exists
    THEN Raised(MetadataLoadException, 1)
    ELSE Returned(file.content, 1)

LoadMetadata(file) ==
    IF ~file.exists
    THEN Raised(MetadataLoadException, 1)
    ELSE IF Strip(file.content) = <<>>
    THEN Raised(MetadataLoadException, 1)
    ELSE Returned(file.content, 1)

(***************************************************************************)
(* SQLGenerator.generate_sql                                               *)
(***************************************************************************)
\* the response is a refusal marker
IsRefusal(generated) == StartsWith(Upper(Strip(generated)), UnanswerableMarker)

\* unanswerable_reason of a refusal
RefusalReason(generated) == Strip(Replace(generated, UnanswerableTag, <<>>))

GenerateSql(s, resp) ==
    IF Get(s, "input_text", <<>>) = <<>> \/ Get(s, "metadata", <<>>) = <<>>
    THEN Raised(LLMClientException(ValueError), 0)
    ELSE LET c == GenerateCompletion(resp)
         IN  IF c.raised
             THEN c
             ELSE IF IsRefusal(c.value)
             THEN Returned([generated_sql_query |-> <<>>,
                            is_unanswerable |-> TRUE,
                            unanswerable_reason |-> RefusalReason(c.value)], 1)
             ELSE Returned([generated_sql_query |-> c.value], 1)

(***************************************************************************)
(* SQLValidator.validate_sql_query                                         *)
(***************************************************************************)
\* the verdict read from the provider's answer
IsValidAnswer(answer) ==
    LET validation_result == Upper(Strip(answer))
    IN  Contains(validation_result, ValidWord) /\ ~Contains(validation_result, InvalidWord)

\* validate_sql_query asking the provider about a query that cleans to nothing
ValidateSqlQueryAsksAboutEmpty(s, resp) ==
    LET sql_query     == Get(s, "generated_sql_query", <<>>)
        cleaned_query == CleanSqlQuery(sql_query)
        c             == GenerateCompletion(resp)
    IN  IF Get(s, "metadata", <<>>) = <<>>
        THEN Returned([is_valid_sql |-> cleaned_query # <<>>, cleaned_query |-> cleaned_query], 0)
        ELSE IF c.raised
        THEN Returned([is_valid_sql |-> FALSE, cleaned_query |-> cleaned_query], 1)
        ELSE Returned([is_valid_sql |-> IsValidAnswer(c.value),
                       cleaned_query |-> cleaned_query], 1)

\* validate_sql_query keeping the cleaned_query an earlier iteration left
ValidateSqlQueryKeepsCleaned(s, resp) ==
    LET sql_query     == Get(s, "generated_sql_query", <<>>)
        cleaned_query == IF Get(s, "cleaned_query", <<>>) # <<>>
                         THEN s["cleaned_query"]
                         ELSE CleanSqlQuery(sql_query)
        c             == GenerateCompletion(resp)
    IN  IF sql_query = <<>>
        THEN Returned([is_valid_sql |-> FALSE, cleaned_query |-> cleaned_query], 0)
        ELSE IF cleaned_query = <<>>
        THEN Returned([is_valid_sql |-> FALSE, cleaned_query |-> cleaned_query], 0)
        ELSE IF Get(s, "metadata", <<>>) = <<>>
        THEN Returned([is_valid_sql |-> TRUE, cleaned_query |-> cleaned_query], 0)
        ELSE IF c.raised
        THEN Returned([is_valid_sql |-> FALSE, cleaned_query |-> cleaned_query], 1)
        ELSE Returned([is_valid_sql |-> IsValidAnswer(c.value),
                       cleaned_query |-> cleaned_query], 1)

ValidateSqlQuery(s, resp) ==
    LET sql_query     == Get(s, "generated_sql_query", <<>>)
        cleaned_query == CleanSqlQuery(sql_query)
        c             == GenerateCompletion(resp)
    IN  IF sql_query = <<>>
        THEN Returned([is_valid_sql |-> FALSE, cleaned_query |-> <<>>], 0)
        ELSE IF cleaned_query = <<>>
        THEN Returned([is_valid_sql |-> FALSE, cleaned_query |-> cleaned_query], 0)
        ELSE IF Get(s, "metadata", <<>>) = <<>>
        THEN Returned([is_valid_sql |-> TRUE, cleaned_query |-> cleaned_query], 0)
        ELSE IF c.raised
        THEN Returned([is_valid_sql |-> FALSE, cleaned_query |-> cleaned_query], 1)
        ELSE Returned([is_valid_sql |-> IsValidAnswer(c.value),
                       cleaned_query |-> cleaned_query], 1)

(***************************************************************************)
(* SQLExecutor.execute_sql and DatabaseClient.execute_query: db is what    *)
(* the database does, [fail |-> BOOLEAN, rows |-> sequence of rows]; a row *)
(* is a sequence of [col |-> Text, val |-> Int].                           *)
(***************************************************************************)
DbFailure == [fail |-> TRUE, rows |-> <<>>]

DbRows(rows) == [fail |-> FALSE, rows |-> rows]

\* the generated text preferred to the cleaned one
SqlToExecuteGeneratedFirst(s) ==
    IF Get(s, "generated_sql_query", <<>>) # <<>>
    THEN s["generated_sql_query"]
    ELSE Get(s, "cleaned_query", <<>>)

\* state.get("cleaned_query") or state.get("generated_sql_query")
SqlToExecute(s) ==
    IF Get(s, "cleaned_query", <<>>) # <<>>
    THEN s["cleaned_query"]
    ELSE Get(s, "generated_sql_query", <<>>)

ExecuteQuery(sql_query, db) ==
    IF sql_query = <<>> \/ Strip(sql_query) = <<>>
    THEN Raised(NoQueryException, 0)
    ELSE IF db.fail
    THEN Raised(SQLExecutionException(ProviderError), 1)
    ELSE Returned(db.rows, 1)

ExecuteSql(s, db) ==
    IF SqlToExecute(s) = <<>>
    THEN Raised(NoQueryException, 0)
    ELSE LET r == ExecuteQuery(SqlToExecute(s), db)
         IN  IF r.raised THEN r ELSE Returned([data |-> r.value], r.called)

(***************************************************************************)
(* SummaryGenerator.generate_summary: env is [prep_fails |-> BOOLEAN,      *)
(* llm |-> response]; prep_fails is an error raised while the data is      *)
(* prepared for the prompt (pandas, json), not by the provider.            *)
(***************************************************************************)
\* list(row.keys())
ColumnNames(row) == [i \in 1..Len(row) |-> row[i].col]

\* the except branch counting the rows as the columns
FallbackSummaryRowsAsColumns(data) ==
    LET num_rows     == Len(data)
        column_names == IF data = <<>> THEN <<>> ELSE ColumnNames(data[1])
    IN  FallbackHead \o IntToText(num_rows) \o FallbackRows \o IntToText(num_rows)
            \o FallbackColumns \o Join(column_names, <<",", " ">>) \o <<".">>

\* the sentence of the except branch
FallbackSummary(data) ==
    LET num_rows     == Len(data)
        num_cols     == IF data = <<>> THEN 0 ELSE Len(data[1])
        column_names == IF data = <<>> THEN <<>> ELSE ColumnNames(data[1])
    IN  FallbackHead \o IntToText(num_rows) \o FallbackRows \o IntToText(num_cols)
            \o FallbackColumns \o Join(column_names, <<",", " ">>) \o <<".">>

\* the 4-5 line shaping of the provider's summary
ShapeSummary(summary) ==
    LET lines     == StripNonEmpty(Split(summary, <<"\n">>))
        sentences == StripNonEmpty(Split(summary, <<".">>))
    IN  IF Len(lines) < 4
        THEN IF Len(sentences) >= 4
             THEN IF Len(sentences) > 5
                  THEN Join(SubSeq(sentences, 1, 5), <<".", " ">>) \o <<".">>
                  ELSE Join(sentences, <<".", " ">>) \o <<".">>
             ELSE summary
        ELSE IF Len(lines) > 5
        THEN Join(SubSeq(lines, 1, 5), <<"\n">>)
        ELSE summary

\* DataFrame(data).empty: no row, or no column in any row
FrameEmpty(data) == \A i \in 1..Len(data) : data[i] = <<>>

GenerateSummary(s, env) ==
    LET data == Get(s, "data", <<>>)
        c    == GenerateCompletion(env.llm)
    IN  IF data = <<>>
        THEN Returned([summary |-> NoDataSummary], 0)
        ELSE IF FrameEmpty(data)
        THEN Returned([summary |-> NoResultsSummary], 0)
        ELSE IF env.prep_fails
        THEN Returned([summary |-> FallbackSummary(data)], 0)
        ELSE IF c.raised
        THEN c
        ELSE Returned([summary |-> ShapeSummary(c.value)], 1)

(***************************************************************************)
(* FollowupQuestionGenerator.generate_followup_questions                   *)
(***************************************************************************)
\* count, the number of questions kept
FollowupCount == 3

NumberingSet == {NumberingChars[i] : i \in 1..Len(NumberingChars)}

FollowupQuestions(questions_text) ==
    LET questions == StripNonEmpty(Split(Strip(questions_text), <<"\n">>))
        cleaned   == [i \in 1..Len(questions) |-> Strip(LStripSet(questions[i], NumberingSet))]
    IN  SubSeq(cleaned, 1, IF Len(cleaned) < FollowupCount THEN Len(cleaned) ELSE FollowupCount)

\* generate_followup_questions giving no question when the provider fails
GenerateFollowupQuestionsSwallow(s, resp) ==
    IF Get(s, "metadata", <<>>) = <<>>
    THEN Returned([followup_que |-> <<>>], 0)
    ELSE LET c == GenerateCompletion(resp)
         IN  IF c.raised
             THEN Returned([followup_que |-> <<>>], 1)
             ELSE Returned([followup_que |-> FollowupQuestions(c.value)], 1)

GenerateFollowupQuestions(s, resp) ==
    IF Get(s, "metadata", <<>>) = <<>>
    THEN Returned([followup_que |-> <<>>], 0)
    ELSE LET c == GenerateCompletion(resp)
         IN  IF c.raised
             THEN c
             ELSE Returned([followup_que |-> FollowupQuestions(c.value)], 1)

(***************************************************************************)
(* WorkflowOrchestrator: the node functions, the router and the graph.     *)
(***************************************************************************)
Nodes ==
    {"get_metadata", "generate_sql", "validate_sql_query", "execute_sql", "generate_summary",
     "generate_chart", "get_followup_que", "handle_unanswerable"}

\* the nodes in the order add_node declares them
NodeOrder ==
    <<"get_metadata", "generate_sql", "validate_sql_query", "execute_sql", "generate_summary",
      "generate_chart", "get_followup_que", "handle_unanswerable">>

\* except Exception as e: raise WorkflowException(..., step=step) from e
WrapStep(step, out) ==
    IF out.raised THEN Raised(WorkflowException(step, out.exc), out.called) ELSE out

\* WorkflowOrchestrator._get_metadata
GetMetadataNode(s, file) ==
    LET r == LoadMetadata(file)
    IN  WrapStep("get_metadata",
                 IF r.raised THEN r ELSE Returned([metadata |-> r.value], r.called))

\* WorkflowOrchestrator._generate_sql
\* _generate_sql also resetting what the validation of the last iteration wrote
GenerateSqlNodeResetsValidation(s, resp) ==
    LET r == GenerateSql(s, resp)
    IN  WrapStep("generate_sql",
                 IF r.raised
                 THEN r
                 ELSE Returned(Merge(r.value, [cleaned_query |-> <<>>, is_valid_sql |-> FALSE]),
                               r.called))

GenerateSqlNode(s, resp) == WrapStep("generate_sql", GenerateSql(s, resp))

\* _validate_sql_query writing retry_count back without the + 1
ValidateSqlQueryNodeNoIncrement(s, resp) ==
    LET r == ValidateSqlQuery(s, resp)
    IN  WrapStep("validate_sql_query",
                 IF r.raised
                 THEN r
                 ELSE Returned(Merge(r.value, [retry_count |-> Get(s, "retry_count", 0)]),
                               r.called))

\* _validate_sql_query counting only the validations that asked the provider
ValidateSqlQueryNodeCountsCalls(s, resp) ==
    LET r == ValidateSqlQuery(s, resp)
    IN  WrapStep("validate_sql_query",
                 IF r.raised
                 THEN r
                 ELSE Returned(Merge(r.value,
                                     [retry_count |-> Get(s, "retry_count", 0) + r.called]),
                               r.called))

\* WorkflowOrchestrator._validate_sql_query
ValidateSqlQueryNode(s, resp) ==
    LET r == ValidateSqlQuery(s, resp)
    IN  WrapStep("validate_sql_query",
                 IF r.raised
                 THEN r
                 ELSE Returned(Merge(r.value, [retry_count |-> Get(s, "retry_count", 0) + 1]),
                               r.called))

\* WorkflowOrchestrator._execute_sql
ExecuteSqlNode(s, db) == WrapStep("execute_sql", ExecuteSql(s, db))

\* WorkflowOrchestrator._generate_summary
GenerateSummaryNode(s, env) == WrapStep("generate_summary", GenerateSummary(s, env))

\* WorkflowOrchestrator._generate_chart
GenerateChartNode(s) == WrapStep("generate_chart", Returned([chart |-> <<>>], 0))

\* WorkflowOrchestrator._get_followup_que
GetFollowupQueNode(s, resp) ==
    WrapStep("get_followup_que", GenerateFollowupQuestions(s, resp))

\* _handle_unanswerable ignoring the reason the generation step gave
HandleUnanswerableNodeDefaultReason(s) ==
    Returned([data |-> <<>>, summary |-> UnanswerablePrefix \o DefaultReason \o TopicHint], 0)

\* WorkflowOrchestrator._handle_unanswerable
HandleUnanswerableNode(s) ==
    LET reason == Get(s, "unanswerable_reason", DefaultReason)
    IN  Returned([data |-> <<>>, summary |-> UnanswerablePrefix \o reason \o TopicHint], 0)

\* max_retries when the state has no max_iterations
DefaultMaxRetries == 3

\* _check_condition with retry_count > max_retries
CheckConditionOffByOne(s) ==
    IF Get(s, "is_unanswerable", FALSE)
    THEN "handle_unanswerable"
    ELSE IF Get(s, "is_valid_sql", FALSE)
            \/ Get(s, "retry_count", 0) > Get(s, "max_iterations", DefaultMaxRetries)
    THEN "execute_sql"
    ELSE "generate_sql"

\* _check_condition giving up on an exhausted budget instead of executing
CheckConditionGivesUp(s) ==
    IF Get(s, "is_unanswerable", FALSE)
    THEN "handle_unanswerable"
    ELSE IF Get(s, "is_valid_sql", FALSE)
    THEN "execute_sql"
    ELSE IF Get(s, "retry_count", 0) >= Get(s, "max_iterations", DefaultMaxRetries)
    THEN "handle_unanswerable"
    ELSE "generate_sql"

\* _check_condition without the retry budget
CheckConditionNoForce(s) ==
    IF Get(s, "is_unanswerable", FALSE)
    THEN "handle_unanswerable"
    ELSE IF Get(s, "is_valid_sql", FALSE)
    THEN "execute_sql"
    ELSE "generate_sql"

\* _check_condition testing validity and the budget before the refusal
CheckConditionValidFirst(s) ==
    IF Get(s, "is_valid_sql", FALSE)
           \/ Get(s, "retry_count", 0) >= Get(s, "max_iterations", DefaultMaxRetries)
    THEN "execute_sql"
    ELSE IF Get(s, "is_unanswerable", FALSE)
    THEN "handle_unanswerable"
    ELSE "generate_sql"

\* WorkflowOrchestrator._check_condition
CheckCondition(s) ==
    IF Get(s, "is_unanswerable", FALSE)
    THEN "handle_unanswerable"
    ELSE IF Get(s, "is_valid_sql", FALSE)
            \/ Get(s, "retry_count", 0) >= Get(s, "max_iterations", DefaultMaxRetries)
    THEN "execute_sql"
    ELSE "generate_sql"

\* _build_workflow without add_edge("execute_sql", "generate_chart")
SuccessorsNoChart(n) ==
    CASE n = "get_metadata" -> {"get_followup_que", "generate_sql"}
      [] n = "generate_sql" -> {"validate_sql_query"}
      [] n = "execute_sql"  -> {"generate_summary"}
      [] OTHER              -> {}

\* the follow-up step placed after the generation step instead of beside it
SuccessorsFollowupAfterGeneration(n) ==
    CASE n = "get_metadata" -> {"generate_sql"}
      [] n = "generate_sql" -> {"validate_sql_query", "get_followup_que"}
      [] n = "execute_sql"  -> {"generate_chart", "generate_summary"}
      [] OTHER              -> {}

\* _build_workflow with an edge from execute_sql back to generate_sql
SuccessorsExecutionLoopsBack(n) ==
    CASE n = "get_metadata" -> {"get_followup_que", "generate_sql"}
      [] n = "generate_sql" -> {"validate_sql_query"}
      [] n = "execute_sql"  -> {"generate_chart", "generate_summary", "generate_sql"}
      [] OTHER              -> {}

\* the add_edge calls of _build_workflow: the unconditional successors of a node
\* (an edge to END gives none)
Successors(n) ==
    CASE n = "get_metadata" -> {"get_followup_que", "generate_sql"}
      [] n = "generate_sql" -> {"validate_sql_query"}
      [] n = "execute_sql"  -> {"generate_chart", "generate_summary"}
      [] OTHER              -> {}

\* the nodes the router of validate_sql_query may name
RouterTargets == {"execute_sql", "generate_sql", "handle_unanswerable"}

(***************************************************************************)
(* Text2SQLRequest, Text2SQLResponse, Text2SQLService.process_query        *)
(***************************************************************************)
\* metadata_path: None, or the path of a metadata file of the caller's
NoPath == "None"

CustomPath == "custom_metadata.txt"

MetadataPaths == {NoPath, CustomPath}

\* Text2SQLRequest.__init__
Text2SQLRequest(input_text, max_iterations, metadata_path) ==
    [input_text |-> input_text, max_iterations |-> max_iterations,
     metadata_path |-> metadata_path]

NoRequest == Text2SQLRequest(<<>>, 0, NoPath)

\* Text2SQLRequest.to_state
ToState(req) ==
    [input_text |-> req.input_text, max_iterations |-> req.max_iterations, retry_count |-> 0]

\* the Text2SQLResponse process_query builds from the final state
BuildResponse(final_state) ==
    [sql_query          |-> SqlToExecute(final_state),
     data               |-> Get(final_state, "data", <<>>),
     summary            |-> Get(final_state, "summary", <<>>),
     followup_questions |-> Get(final_state, "followup_que", <<>>),
     chart              |-> Get(final_state, "chart", <<>>),
     metadata           |-> Get(final_state, "metadata", <<>>)]

NoResponse ==
    [sql_query |-> <<>>, data |-> <<>>, summary |-> <<>>, followup_questions |-> <<>>,
     chart |-> <<>>, metadata |-> <<>>]

\* WorkflowOrchestrator.invoke: except Exception as e: raise WorkflowException(step="invoke")
InvokeError(e) == WorkflowException("invoke", e)

\* process_query without its except ValueError clause
ProcessQueryErrorNoValueErrorClause(e) ==
    IF e.cls = "WorkflowException"
    THEN Exception("Text2SQLException", e.error_code, 500, e.workflow_step, e.root)
    ELSE Exception("Text2SQLException", "INTERNAL_ERROR", 500, "none", e.root)

\* the except clauses of process_query
ProcessQueryError(e) ==
    IF e.cls = "WorkflowException"
    THEN Exception("Text2SQLException", e.error_code, 500, e.workflow_step, e.root)
    ELSE IF e.cls = "ValueError"
    THEN Exception("Text2SQLException", "VALIDATION_ERROR", 500, "none", e.root)
    ELSE Exception("Text2SQLException", "INTERNAL_ERROR", 500, "none", e.root)

\* invoke logging the exception and returning what it has instead of raising
InvokeReturnsPartial(w) == Returned(w.value, 0)

\* WorkflowOrchestrator.invoke around self._workflow.invoke: w is what the graph
\* run gives, the final state or the exception of the node that raised
Invoke(w) == IF w.raised THEN Raised(InvokeError(w.exc), 0) ELSE w

\* process_query around invoke: the response, or the Text2SQLException
ProcessQueryOutcome(i) ==
    IF i.raised
    THEN Raised(ProcessQueryError(i.exc), 0)
    ELSE Returned(BuildResponse(i.value), 0)

(***************************************************************************)
(* What the collaborators may do; faults says whether their calls may fail.*)
(***************************************************************************)
Inputs == {<<>>, InputBlank, InputQuestion}

LlmFaults(faults) == IF faults THEN {LlmFailure, LlmAnswer(<<>>)} ELSE {}

MetadataFiles(faults) ==
    {[exists |-> TRUE, content |-> SchemaText]}
        \cup (IF faults
              THEN {[exists |-> FALSE, content |-> <<>>], [exists |-> TRUE, content |-> BlankFile]}
              ELSE {})

GenResponses(faults) ==
    {LlmAnswer(t) : t \in {GenFenced, GenOverLimit, GenRefusal, GenRefusalLower, GenBlank,
                         Fence}}
        \cup LlmFaults(faults)

ValResponses(faults) == {LlmAnswer(ValidWord), LlmAnswer(InvalidWord)} \cup LlmFaults(faults)

RowA == <<[col |-> ColId, val |-> 1], [col |-> ColAmount, val |-> 50]>>

RowB == <<[col |-> ColId, val |-> 2], [col |-> ColAmount, val |-> 70]>>

DbOutcomes(faults) ==
    {DbRows(<<>>), DbRows(<<RowA>>), DbRows(<<RowA, RowB>>), DbRows(<< <<>> >>)}
        \cup (IF faults THEN {DbFailure} ELSE {})

SummaryEnvs(faults) ==
    {[prep_fails |-> FALSE, llm |-> LlmAnswer(t)] :
         t \in {SummaryShort, SummarySentences, SummaryLong}}
        \cup {[prep_fails |-> FALSE, llm |-> l] : l \in LlmFaults(faults)}
        \cup (IF faults THEN {[prep_fails |-> TRUE, llm |-> LlmAnswer(SummaryShort)]} ELSE {})

FollowupResponses(faults) == {LlmAnswer(FollowupText)} \cup LlmFaults(faults)

(***************************************************************************)
(* The state machine: one call of process_query and the run of the graph   *)
(* it starts.  The graph runs in supersteps: the nodes of a superstep are  *)
(* invoked together on the state as it is when the superstep starts, they  *)
(* finish in any order, and their updates are merged when all have         *)
(* finished; the first node that raises ends the run.                      *)
(***************************************************************************)
VARIABLES
    pc,            \* "idle", "running", "done", "failed" ("router", "routed": RouterSpec)
    state,         \* the workflow state
    running,       \* the nodes of the current superstep that have not finished
    pending,       \* node -> the update it returned in the current superstep
    targets,       \* the nodes the finished nodes of this superstep lead to
    invoked,       \* node -> the number of times its function was invoked
    collab,        \* node -> the number of calls its executions made to a collaborator
    executed,      \* the SQL texts handed to the database, in order
    refused,       \* a generation step returned a refusal
    valid_seen,    \* a validation step returned is_valid_sql = TRUE
    route,         \* the last answer of the router, "none" before
    log,           \* the node executions that finished, in order: [node, read, called,
                   \* value, raised, provider_failed, local_failed]
    failed_node,   \* the node whose function raised, "none" when none did
    node_error,    \* the exception that node function raised
    invoke_error,  \* the exception invoke raised
    error,         \* the exception process_query raised
    result,        \* the state invoke returned
    response,      \* the response process_query returned
    request        \* the Text2SQLRequest process_query built, NoRequest before

vars ==
    <<pc, state, running, pending, targets, invoked, collab, executed, refused, valid_seen,
      route, log, failed_node, node_error, invoke_error, error, result, response, request>>

Init ==
    /\ pc = "idle"
    /\ state = EmptyDict
    /\ running = {}
    /\ pending = EmptyDict
    /\ targets = {}
    /\ invoked = [n \in Nodes |-> 0]
    /\ collab = [n \in Nodes |-> 0]
    /\ executed = <<>>
    /\ refused = FALSE
    /\ valid_seen = FALSE
    /\ route = "none"
    /\ log = <<>>
    /\ failed_node = "none"
    /\ node_error = NoException
    /\ invoke_error = NoException
    /\ error = NoException
    /\ result = EmptyDict
    /\ response = NoResponse
    /\ request = NoRequest

\* the updates of a superstep merged into the state, in the nodes' order
RECURSIVE ApplyWritesFrom(_, _, _)
ApplyWritesFrom(s, p, i) ==
    IF i > Len(NodeOrder)
    THEN s
    ELSE ApplyWritesFrom(IF NodeOrder[i] \in DOMAIN p THEN Merge(s, p[NodeOrder[i]]) ELSE s,
                         p, i + 1)

\* the barrier keeping the update of one node of the superstep only
ApplyWritesFirstOnly(s, p) ==
    IF DOMAIN p = {}
    THEN s
    ELSE Merge(s, p[NodeOrder[CHOOSE i \in 1..Len(NodeOrder) :
                                  /\ NodeOrder[i] \in DOMAIN p
                                  /\ \A j \in 1..(i - 1) : NodeOrder[j] \notin DOMAIN p]])

ApplyWrites(s, p) == ApplyWritesFrom(s, p, 1)

\* the run ends: invoke returns or raises, and process_query after it
Deliver(w) ==
    LET i == Invoke(w)
        r == ProcessQueryOutcome(i)
    IN  /\ pc' = IF r.raised THEN "failed" ELSE "done"
        /\ result' = i.value
        /\ invoke_error' = i.exc
        /\ response' = IF r.raised THEN NoResponse ELSE r.value
        /\ error' = r.exc

\* the provider gave no completion
IsLlmFault(resp) == resp.fail \/ resp.content = <<>>

\* a node writing its update into the state the other nodes of the superstep read
FinishWritesThrough(n, out, next, provider_failed, local_failed) ==
    /\ pc = "running"
    /\ n \in running
    /\ collab' = [collab EXCEPT ![n] = @ + out.called]
    /\ log' = Append(log, [node |-> n, read |-> state, called |-> out.called,
                           value |-> out.value, raised |-> out.raised,
                           provider_failed |-> (out.called = 1 /\ provider_failed),
                           local_failed |-> local_failed])
    /\ IF out.raised
       THEN /\ node_error' = out.exc
            /\ failed_node' = n
            /\ Deliver(out)
            /\ UNCHANGED <<running, pending, targets>>
       ELSE /\ running' = running \ {n}
            /\ pending' = Merge(pending, [x \in {n} |-> out.value])
            /\ targets' = targets \cup next
            /\ UNCHANGED <<pc, node_error, failed_node, invoke_error, error, result, response>>
    /\ state' = Merge(state, out.value)
    /\ UNCHANGED <<invoked, request>>

\* node n finishes with outcome out; next are the nodes it leads to; provider_failed:
\* the call it made to its collaborator failed; local_failed: it met an error of its own
Finish(n, out, next, provider_failed, local_failed) ==
    /\ pc = "running"
    /\ n \in running
    /\ collab' = [collab EXCEPT ![n] = @ + out.called]
    /\ log' = Append(log, [node |-> n, read |-> state, called |-> out.called,
                           value |-> out.value, raised |-> out.raised,
                           provider_failed |-> (out.called = 1 /\ provider_failed),
                           local_failed |-> local_failed])
    /\ IF out.raised
       THEN /\ node_error' = out.exc
            /\ failed_node' = n
            /\ Deliver(out)
            /\ UNCHANGED <<running, pending, targets>>
       ELSE /\ running' = running \ {n}
            /\ pending' = Merge(pending, [x \in {n} |-> out.value])
            /\ targets' = targets \cup next
            /\ UNCHANGED <<pc, node_error, failed_node, invoke_error, error, result, response>>
    /\ UNCHANGED <<state, invoked, request>>

\* Text2SQLService.process_query, to the start of the graph run
\* (a path of the caller's is drawn with the smallest retry budget only)
ProcessQuery ==
    /\ pc = "idle"
    /\ \E input_text \in Inputs, max_iterations \in 1..MaxIterations,
          metadata_path \in MetadataPaths :
           IF input_text = <<>> \/ Strip(input_text) = <<>>
           THEN /\ pc' = "failed"
                /\ error' = ProcessQueryError(ValueError)
                /\ UNCHANGED <<state, running, invoked, request>>
           ELSE /\ metadata_path # NoPath => max_iterations = 1
                /\ pc' = "running"
                /\ request' = Text2SQLRequest(input_text, max_iterations, metadata_path)
                /\ state' = ToState(request')
                /\ running' = {"get_metadata"}
                /\ invoked' = [invoked EXCEPT !["get_metadata"] = @ + 1]
                /\ UNCHANGED error
    /\ UNCHANGED <<pending, targets, collab, executed, refused, valid_seen, route, log,
                   failed_node, node_error, invoke_error, result, response>>

NodeGetMetadata(faults) ==
    /\ \E file \in MetadataFiles(faults) :
           Finish("get_metadata", GetMetadataNode(state, file), Successors("get_metadata"),
                  ~file.exists \/ Strip(file.content) = <<>>, FALSE)
    /\ UNCHANGED <<executed, refused, valid_seen, route>>

NodeGenerateSql(faults) ==
    /\ \E resp \in GenResponses(faults) :
           LET out == GenerateSqlNode(state, resp)
           IN  /\ Finish("generate_sql", out, Successors("generate_sql"),
                         IsLlmFault(resp), FALSE)
               /\ refused' = (refused \/ (~out.raised /\ "is_unanswerable" \in DOMAIN out.value))
    /\ UNCHANGED <<executed, valid_seen, route>>

NodeValidateSqlQuery(faults) ==
    /\ \E resp \in ValResponses(faults) :
           LET out == ValidateSqlQueryNode(state, resp)
               to  == CheckCondition(Merge(state, out.value))
           IN  /\ Finish("validate_sql_query", out, {to}, IsLlmFault(resp), FALSE)
               /\ valid_seen' = (valid_seen \/ (~out.raised /\ out.value["is_valid_sql"]))
               /\ route' = IF out.raised THEN route ELSE to
    /\ UNCHANGED <<executed, refused>>

NodeExecuteSql(faults) ==
    /\ \E db \in DbOutcomes(faults) :
           LET out == ExecuteSqlNode(state, db)
           IN  /\ Finish("execute_sql", out, Successors("execute_sql"), db.fail, FALSE)
               /\ executed' = IF out.called = 1
                              THEN Append(executed, SqlToExecute(state))
                              ELSE executed
    /\ UNCHANGED <<refused, valid_seen, route>>

NodeGenerateSummary(faults) ==
    /\ \E env \in SummaryEnvs(faults) :
           LET out == GenerateSummaryNode(state, env)
           IN  Finish("generate_summary", out, Successors("generate_summary"),
                      IsLlmFault(env.llm),
                      env.prep_fails /\ ~FrameEmpty(Get(state, "data", <<>>)))
    /\ UNCHANGED <<executed, refused, valid_seen, route>>

NodeGenerateChart ==
    /\ Finish("generate_chart", GenerateChartNode(state), Successors("generate_chart"),
              FALSE, FALSE)
    /\ UNCHANGED <<executed, refused, valid_seen, route>>

NodeGetFollowupQue(faults) ==
    /\ \E resp \in FollowupResponses(faults) :
           Finish("get_followup_que", GetFollowupQueNode(state, resp),
                  Successors("get_followup_que"), IsLlmFault(resp), FALSE)
    /\ UNCHANGED <<executed, refused, valid_seen, route>>

NodeHandleUnanswerable ==
    /\ Finish("handle_unanswerable", HandleUnanswerableNode(state),
              Successors("handle_unanswerable"), FALSE, FALSE)
    /\ UNCHANGED <<executed, refused, valid_seen, route>>

\* the end of a superstep passed as soon as one node has returned, the others left
SuperstepNoJoin ==
    /\ pc = "running"
    /\ DOMAIN pending # {}
    /\ state' = ApplyWrites(state, pending)
    /\ pending' = EmptyDict
    /\ targets' = {}
    /\ IF targets = {}
       THEN /\ Deliver(Returned(ApplyWrites(state, pending), 0))
            /\ UNCHANGED <<running, invoked>>
       ELSE /\ running' = targets
            /\ invoked' = [n \in Nodes |-> invoked[n] + (IF n \in targets THEN 1 ELSE 0)]
            /\ UNCHANGED <<pc, invoke_error, error, result, response>>
    /\ UNCHANGED <<collab, executed, refused, valid_seen, route, log, failed_node,
                   node_error, request>>

\* the end of a superstep: the updates are merged and the next nodes are invoked,
\* or, when no node follows, the run returns the final state
Superstep ==
    /\ pc = "running"
    /\ running = {}
    /\ state' = ApplyWrites(state, pending)
    /\ pending' = EmptyDict
    /\ targets' = {}
    /\ IF targets = {}
       THEN /\ Deliver(Returned(ApplyWrites(state, pending), 0))
            /\ UNCHANGED <<running, invoked>>
       ELSE /\ running' = targets
            /\ invoked' = [n \in Nodes |-> invoked[n] + (IF n \in targets THEN 1 ELSE 0)]
            /\ UNCHANGED <<pc, invoke_error, error, result, response>>
    /\ UNCHANGED <<collab, executed, refused, valid_seen, route, log, failed_node,
                   node_error, request>>

Steps(faults) ==
    \/ NodeGetMetadata(faults)
    \/ NodeGenerateSql(faults)
    \/ NodeValidateSqlQuery(faults)
    \/ NodeExecuteSql(faults)
    \/ NodeGenerateSummary(faults)
    \/ NodeGenerateChart
    \/ NodeGetFollowupQue(faults)
    \/ NodeHandleUnanswerable
    \/ Superstep

Next == ProcessQuery \/ Steps(TRUE)

Spec == Init /\ [][Next]_vars

\* a step of the call in progress: it starts the run, a started node returns or
\* raises, or the engine passes the end of a superstep; each step of Next is one
Progress ==
    /\ pc \in {"idle", "running"}
    /\ pc' \in {"running", "done", "failed"}
    /\ running' \in SUBSET Nodes
    /\ <<pc', running'>> # <<pc, running>>

\* every collaborator call returns or fails, and the engine goes on to the next node
FairSpec == Spec /\ WF_<<pc, running>>(Progress)

\* the scenario in which every collaborator call returns
NextOk == ProcessQuery \/ Steps(FALSE)

SpecOk == Init /\ [][NextOk]_vars

FairSpecOk == SpecOk /\ WF_<<pc, running>>(Progress)


(***************************************************************************)
(* The router alone: _check_condition applied to a state in which          *)
(* validation has been merged.                                             *)
(***************************************************************************)
RouterStates ==
    {[is_valid_sql |-> v, retry_count |-> r, max_iterations |-> m] :
         v \in BOOLEAN, r \in 0..(MaxIterations + 2), m \in 1..MaxIterations}
        \cup {[is_unanswerable |-> u, is_valid_sql |-> v, retry_count |-> r,
               max_iterations |-> m] :
                  u \in BOOLEAN, v \in BOOLEAN, r \in 0..(MaxIterations + 2),
                  m \in 1..MaxIterations}

RouterInit ==
    /\ pc = "router"
    /\ state \in RouterStates
    /\ running = {}
    /\ pending = EmptyDict
    /\ targets = {}
    /\ invoked = [n \in Nodes |-> 0]
    /\ collab = [n \in Nodes |-> 0]
    /\ executed = <<>>
    /\ refused = FALSE
    /\ valid_seen = FALSE
    /\ route = "none"
    /\ log = <<>>
    /\ failed_node = "none"
    /\ node_error = NoException
    /\ invoke_error = NoException
    /\ error = NoException
    /\ result = EmptyDict
    /\ response = NoResponse
    /\ request = NoRequest

\* add_conditional_edges("validate_sql_query", self._check_condition, ...): the
\* router's answer is the one node invoked next
RouterApply ==
    /\ pc = "router"
    /\ pc' = "routed"
    /\ route' = CheckCondition(state)
    /\ targets' = {CheckCondition(state)}
    /\ UNCHANGED <<state, running, pending, invoked, collab, executed, refused, valid_seen,
                   log, failed_node, node_error, invoke_error, error, result, response,
                   request>>

RouterNext == RouterApply

RouterSpec == RouterInit /\ [][RouterNext]_vars

\* the edges of the graph, the router's included
GraphEdges(n) == Successors(n) \cup (IF n = "validate_sql_query" THEN RouterTargets ELSE {})

\* seen, and the nodes k edges or fewer lead to from it, the edges of `without` removed
RECURSIVE ReachableWithin(_, _, _)
ReachableWithin(seen, without, k) ==
    IF k = 0
    THEN seen
    ELSE ReachableWithin(
             seen \cup {y \in Nodes : \E x \in seen : y \in GraphEdges(x) /\ <<x, y>> \notin without},
             without, k - 1)

\* the nodes reached from n by one edge or more when the edges of `without` are removed
Reachable(n, without) ==
    ReachableWithin({y \in GraphEdges(n) : <<n, y>> \notin without}, without, Cardinality(Nodes))

(***************************************************************************)
(* The properties.                                                         *)
(***************************************************************************)
\* C1: in a run started with retry_count = 0 and max_iterations = m >= 1 the
\* generation step is invoked at most m times, whatever the validations answer.
C1_GenerationBounded ==
    "max_iterations" \in DOMAIN state => invoked["generate_sql"] <= state["max_iterations"]

C1_Witness ==
    /\ pc = "done"
    /\ "max_iterations" \in DOMAIN state
    /\ state["max_iterations"] = MaxIterations
    /\ invoked["generate_sql"] = MaxIterations
    /\ invoked["validate_sql_query"] = MaxIterations

\* C2: every run terminates when each collaborator call returns or fails: the
\* validate -> generate edge closes the only cycle of the graph, each validation
\* visit merged into the state strictly increases retry_count, generation is
\* attempted at most max_iterations + 1 times, and the run ends with no branch
\* left to run or with a failure.
C2_Terminates ==
    /\ <>(pc \in {"done", "failed"})
    /\ [](/\ \A n \in Nodes :
                 n \in Reachable(n, {}) <=> n \in {"generate_sql", "validate_sql_query"}
          /\ \A n \in Nodes : n \notin Reachable(n, {<<"validate_sql_query", "generate_sql">>}))
    /\ [][("validate_sql_query" \in DOMAIN pending /\ pending' = EmptyDict)
              => state'["retry_count"] > state["retry_count"]]_vars
    /\ []("max_iterations" \in DOMAIN state
              => invoked["generate_sql"] <= state["max_iterations"] + 1)
    /\ [](pc = "done" => running = {} /\ targets = {} /\ pending = EmptyDict)

C2_Witness ==
    /\ pc = "done"
    /\ invoked["validate_sql_query"] = 2
    /\ state["retry_count"] = 2
    /\ invoked["generate_summary"] = 1
    /\ invoked["generate_chart"] = 1
    /\ invoked["get_followup_que"] = 1

\* C3: when every validation reports invalid and no generation refuses, the run
\* reaches execute_sql, neither failing nor looping, and reaches it with
\* retry_count = max_iterations.
C3_ForcedForward ==
    /\ [](invoked["execute_sql"] >= 1 /\ ~valid_seen
              => state["retry_count"] = state["max_iterations"])
    /\ (pc = "running") ~> (refused \/ valid_seen \/ invoked["execute_sql"] = 1)

C3_Witness ==
    /\ invoked["execute_sql"] = 1
    /\ ~valid_seen
    /\ ~refused
    /\ state["max_iterations"] = 2
    /\ state["retry_count"] = 2
    /\ invoked["generate_sql"] = 2

\* C4: on the state with validation merged the router names exactly one successor:
\* handle_unanswerable when is_unanswerable is true, whatever is_valid_sql and
\* retry_count are; else execute_sql when is_valid_sql is true or
\* retry_count >= max_iterations; else generate_sql.
C4_RouterRule ==
    pc = "routed" =>
        LET unanswerable == "is_unanswerable" \in DOMAIN state /\ state["is_unanswerable"]
            forward      == state["is_valid_sql"]
                                \/ state["retry_count"] >= state["max_iterations"]
        IN  /\ targets = {route}
            /\ route \in RouterTargets
            /\ unanswerable => route = "handle_unanswerable"
            /\ ~unanswerable /\ forward => route = "execute_sql"
            /\ ~unanswerable /\ ~forward => route = "generate_sql"

C4_Witness ==
    /\ pc = "routed"
    /\ "is_unanswerable" \in DOMAIN state
    /\ state["is_unanswerable"]
    /\ state["is_valid_sql"]
    /\ state["retry_count"] >= state["max_iterations"]
    /\ route = "handle_unanswerable"

\* C5: once a generation step has returned a refusal, on whichever attempt, the
\* execution, summary and chart steps are never invoked in the run.
C5_RefusalSkipsExecution ==
    refused => /\ invoked["execute_sql"] = 0
               /\ invoked["generate_summary"] = 0
               /\ invoked["generate_chart"] = 0
               /\ executed = <<>>

C5_Witness ==
    /\ refused
    /\ pc = "done"
    /\ invoked["generate_sql"] = 2
    /\ invoked["handle_unanswerable"] = 1

\* C6: when generation refuses with reason R the run completes successfully (every
\* collaborator call returning), and the state it returns has is_unanswerable true,
\* no data, and a summary that holds R followed by the topic hint; the unanswerable
\* step ran once and called no collaborator.
C6_RefusalCompletes ==
    /\ [](refused /\ pc = "done"
              => /\ "is_unanswerable" \in DOMAIN result
                 /\ result["is_unanswerable"]
                 /\ result["data"] = <<>>
                 /\ response.data = <<>>
                 /\ EndsWith(result["summary"], result["unanswerable_reason"] \o TopicHint)
                 /\ response.summary = result["summary"]
                 /\ invoked["handle_unanswerable"] = 1
                 /\ collab["handle_unanswerable"] = 0)
    /\ [](refused => pc # "failed")
    /\ refused ~> (pc = "done")

C6_Witness ==
    /\ refused
    /\ pc = "done"
    /\ result["unanswerable_reason"] = SubSeq(GenRefusal, 15, Len(GenRefusal))
    /\ result["summary"] = UnanswerablePrefix \o SubSeq(GenRefusal, 15, Len(GenRefusal))
                               \o TopicHint
    /\ result["is_unanswerable"]
    /\ collab["handle_unanswerable"] = 0

\* C7: when a step's function raises, the run is aborted: invoke raises and returns
\* no state, process_query raises and gives no response, and no step function is
\* started, and none finishes, after the failure.
C7_FailFast ==
    /\ [](failed_node # "none"
              => /\ pc = "failed"
                 /\ invoke_error.cls = "WorkflowException"
                 /\ error.cls = "Text2SQLException"
                 /\ result = EmptyDict
                 /\ response = NoResponse)
    /\ [](pc = "done" => failed_node = "none" /\ \A i \in 1..Len(log) : ~log[i].raised)
    /\ [][pc = "failed" => pc' = "failed" /\ invoked' = invoked /\ log' = log]_vars

C7_Witness ==
    /\ pc = "failed"
    /\ failed_node = "generate_summary"
    /\ "generate_chart" \in DOMAIN pending
    /\ "data" \in DOMAIN state
    /\ result = EmptyDict

\* C8: when a run fails because the function of step S raised, the error invoke
\* raises, and the one process_query raises from it, name S as the failing step.
C8_ErrorNamesFailingStep ==
    failed_node # "none"
        => /\ invoke_error.workflow_step = failed_node
           /\ error.workflow_step = failed_node

\* C9 as stated: no failure of the generative summary, its provider call's
\* included, aborts the run; the step returns the row and column sentence.
C9_SummaryFailureNeverAborts ==
    \A i \in 1..Len(log) :
        (log[i].node = "generate_summary" /\ (log[i].provider_failed \/ log[i].local_failed))
            => ~log[i].raised

\* C9: a failure met in the summary step outside the provider call does not abort
\* the run: the step returns the sentence giving the row count, the column count and
\* the column names, and the run completes with it; a failure of the provider call
\* is raised again and aborts the run.
C9_SummaryFallback ==
    \A i \in 1..Len(log) :
        log[i].node = "generate_summary"
            => LET data == state["data"]
               IN  /\ log[i].local_failed
                          => /\ ~log[i].raised
                             /\ log[i].called = 0
                             /\ log[i].value["summary"]
                                    = FallbackHead \o IntToText(Len(data)) \o FallbackRows
                                          \o IntToText(Len(data[1])) \o FallbackColumns
                                          \o Join(ColumnNames(data[1]), <<",", " ">>)
                                          \o <<".">>
                             /\ pc # "failed"
                             /\ pc = "done" => result["summary"] = log[i].value["summary"]
                   /\ log[i].provider_failed
                          => /\ log[i].raised
                             /\ pc = "failed"
                             /\ failed_node = "generate_summary"

C9_Witness ==
    /\ pc = "done"
    /\ result["data"] = <<RowA>>
    /\ result["summary"] = FallbackHead \o <<"1">> \o FallbackRows \o <<"2">>
                               \o FallbackColumns \o ColId \o <<",", " ">> \o ColAmount
                               \o <<".">>
    /\ \E i \in 1..Len(log) : log[i].node = "generate_summary" /\ log[i].local_failed

\* C10 as stated: a collaborator failure in any step other than the summary step is
\* escalated and aborts the run.
C10_OnlySummaryFallsBack ==
    \A i \in 1..Len(log) :
        (log[i].provider_failed /\ log[i].node # "generate_summary")
            => log[i].raised /\ pc = "failed"

\* C10: a collaborator failure in the metadata, generation, execution or follow-up
\* step is escalated and aborts the run, while the validation step falls back to
\* is_valid_sql = false when its provider call fails and the run goes on; the engine
\* never runs a failed step again.
C10_Escalation ==
    /\ \A i \in 1..Len(log) :
           /\ (log[i].provider_failed
                   /\ log[i].node \in {"get_metadata", "generate_sql", "execute_sql",
                                       "get_followup_que"})
                  => log[i].raised
           /\ (log[i].provider_failed /\ log[i].node = "validate_sql_query")
                  => ~log[i].raised /\ ~log[i].value["is_valid_sql"]
           /\ log[i].raised
                  => /\ i = Len(log)
                     /\ pc = "failed"
                     /\ failed_node = log[i].node
    /\ failed_node # "none"
           => invoked[failed_node]
                  = Cardinality({i \in 1..Len(log) : log[i].node = failed_node})

C10_Witness ==
    /\ pc = "done"
    /\ invoked["execute_sql"] = 1
    /\ \E i \in 1..Len(log) :
           /\ log[i].node = "validate_sql_query"
           /\ log[i].provider_failed
           /\ ~log[i].raised

\* C11 as stated: with metadata loaded, no refusal and the first validation
\* reporting valid, the state the run returns has non-empty data.
C11_HappyPathDataNonEmpty ==
    (/\ pc = "done"
     /\ ~refused
     /\ \E i \in 1..Len(log) :
            /\ log[i].node = "validate_sql_query"
            /\ log[i].value["is_valid_sql"]
            /\ \A j \in 1..(i - 1) : log[j].node # "validate_sql_query")
        => result["data"] # <<>>

\* C11: with metadata loaded, no refusal and the first validation reporting valid,
\* the run invokes generation once and validation once, ends with retry_count = 1,
\* invokes execution, summary, chart and follow-up once each and returns; the state
\* returned has non-empty cleaned_query, summary and followup_que, chart = "", and
\* as data the rows the database returned (no row when it returned none).
C11_HappyPath ==
    LET firstValid ==
            /\ ~refused
            /\ \E i \in 1..Len(log) :
                   /\ log[i].node = "validate_sql_query"
                   /\ log[i].value["is_valid_sql"]
                   /\ \A j \in 1..(i - 1) : log[j].node # "validate_sql_query"
    IN  /\ [](firstValid
                  => /\ invoked["generate_sql"] = 1
                     /\ invoked["validate_sql_query"] = 1
                     /\ invoked["handle_unanswerable"] = 0
                     /\ pc # "failed")
        /\ [](firstValid /\ pc = "done"
                  => /\ result["retry_count"] = 1
                     /\ invoked["get_metadata"] = 1
                     /\ invoked["execute_sql"] = 1
                     /\ invoked["generate_summary"] = 1
                     /\ invoked["generate_chart"] = 1
                     /\ invoked["get_followup_que"] = 1
                     /\ result["metadata"] # <<>>
                     /\ result["cleaned_query"] # <<>>
                     /\ executed = <<result["cleaned_query"]>>
                     /\ result["summary"] # <<>>
                     /\ result["followup_que"] # <<>>
                     /\ result["chart"] = <<>>
                     /\ \E i \in 1..Len(log) :
                            log[i].node = "execute_sql" /\ result["data"] = log[i].value["data"])
        /\ firstValid ~> (pc = "done")

C11_Witness ==
    /\ pc = "done"
    /\ ~refused
    /\ result["input_text"] = InputQuestion
    /\ result["retry_count"] = 1
    /\ result["is_valid_sql"]
    /\ result["data"] = <<RowA, RowB>>
    /\ result["chart"] = <<>>
    /\ Len(result["followup_que"]) = 3
    /\ invoked["generate_sql"] = 1

\* C12: the state a successful run returns is the union of the initial fields and
\* of every field written by every step that ran, on every branch, each key holding
\* the value written last: no write is missing, the follow-up branch's included.
C12_FinalStateIsUnion ==
    pc = "done" =>
        /\ DOMAIN result = {"input_text", "max_iterations", "retry_count"}
                               \cup UNION {DOMAIN log[i].value : i \in 1..Len(log)}
        /\ result["input_text"] \in Inputs
        /\ result["max_iterations"] \in 1..MaxIterations
        /\ \A i \in 1..Len(log) : \A k \in DOMAIN log[i].value :
               (\A j \in (i + 1)..Len(log) : k \notin DOMAIN log[j].value)
                   => result[k] = log[i].value[k]
        /\ \A n \in Nodes : invoked[n] = Cardinality({i \in 1..Len(log) : log[i].node = n})

C12_Witness ==
    /\ pc = "done"
    /\ invoked["generate_sql"] = 2
    /\ \E i \in 1..Len(log) :
           /\ log[i].node = "get_followup_que"
           /\ result["followup_que"] = log[i].value["followup_que"]
           /\ Len(result["followup_que"]) = 3
    /\ \E i, j \in 1..Len(log) :
           /\ i < j
           /\ log[i].node = "generate_sql"
           /\ log[j].node = "generate_sql"
           /\ log[i].value["generated_sql_query"] # log[j].value["generated_sql_query"]
           /\ result["generated_sql_query"] = log[j].value["generated_sql_query"]
    /\ "summary" \in DOMAIN result
    /\ "chart" \in DOMAIN result

\* C13: invoke returns only after every branch has been joined: when the run is
\* reported complete no node is running or waiting to run, every node function that
\* was started has returned, and the follow-up branch and either the chart and
\* summary branches or the unanswerable branch have reached their last node.
C13_BranchesJoined ==
    pc = "done" =>
        LET finished(n) == {i \in 1..Len(log) : log[i].node = n /\ ~log[i].raised}
        IN  /\ running = {}
            /\ targets = {}
            /\ \A n \in Nodes : Cardinality(finished(n)) = invoked[n]
            /\ finished("get_followup_que") # {}
            /\ \/ finished("generate_chart") # {} /\ finished("generate_summary") # {}
               \/ finished("handle_unanswerable") # {}

C13_Witness ==
    /\ pc = "done"
    /\ log[Len(log)].node = "generate_chart"
    /\ log[Len(log) - 1].node = "generate_summary"
    /\ \E i, j \in 1..Len(log) :
           /\ i < j
           /\ log[i].node = "generate_sql"
           /\ log[j].node = "get_followup_que"

(***************************************************************************)
(* The normalizer on its own: clean_sql_query and _ensure_limit applied to *)
(* a drawn value, and applied again to their own output.                   *)
(***************************************************************************)
QuerySelectOne ==
    <<"S", "E", "L", "E", "C", "T", " ", "1">>

QueryLowerLimit ==
    <<"S", "E", "L", "E", "C", "T", " ", "1", " ", "l", "i", "m", "i", "t", " ", "5">>

QueryWordLimit ==
    <<"S", "_", "L", "I", "M", "I", "T", " ", "1", "0">>

QueryTwoLimits ==
    <<"S", "E", "L", "E", "C", "T", " ", "1", " ", "L", "I", "M", "I", "T", " ", "5", " ", "L",
      "I", "M", "I", "T", " ", "7">>

QueryInnerFence ==
    <<Backtick, Backtick, Backtick, "x", "\n", "S", "E", "L", "E", "C", "T", " ", "1">>

QueryCapped ==
    <<"S", "E", "L", "E", "C", "T", " ", "1", " ", "L", "I", "M", "I", "T", " ", "1", "0", "0",
      "0">>

\* what may stand before, in and after the query in the text handed over
NormalizerPrefixes == {<<>>, Fence \o <<"s", "q", "l", "\n">>, Fence, <<" ">>}

NormalizerBodies ==
    {<<>>, QuerySelectOne, GenOverLimit, QueryLowerLimit, QueryWordLimit, QueryTwoLimits,
     QueryInnerFence}

NormalizerSuffixes ==
    {<<>>, <<";">>, <<"\n">> \o Fence, <<";", "\n">> \o Fence, <<";", ";", " ">>}

NormalizerTexts ==
    {p \o b \o s : p \in NormalizerPrefixes, b \in NormalizerBodies, s \in NormalizerSuffixes}

\* the sql_query argument: a str, None or a number
NormalizerValues == {PyStr(t) : t \in NormalizerTexts} \cup {PyNone, PyInt}

\* the max_rows argument of _ensure_limit
RowCaps == {10, MAX_QUERY_ROWS}

NormalizerInit ==
    /\ pc = "normalizer"
    /\ \E value \in NormalizerValues, max_rows \in RowCaps :
           state = [sql_query |-> value, max_rows |-> max_rows]
    /\ running = {}
    /\ pending = EmptyDict
    /\ targets = {}
    /\ invoked = [n \in Nodes |-> 0]
    /\ collab = [n \in Nodes |-> 0]
    /\ executed = <<>>
    /\ refused = FALSE
    /\ valid_seen = FALSE
    /\ route = "none"
    /\ log = <<>>
    /\ failed_node = "none"
    /\ node_error = NoException
    /\ invoke_error = NoException
    /\ error = NoException
    /\ result = EmptyDict
    /\ response = NoResponse
    /\ request = NoRequest

\* cleaned = clean_sql_query(sql_query)
NormalizerClean ==
    /\ pc = "normalizer"
    /\ pc' = "cleaned"
    /\ result' = [cleaned_query |-> CleanSqlQueryAny(state["sql_query"])]
    /\ UNCHANGED <<state, running, pending, targets, invoked, collab, executed, refused,
                   valid_seen, route, log, failed_node, node_error, invoke_error, error,
                   response, request>>

\* clean_sql_query(cleaned)
NormalizerCleanAgain ==
    /\ pc = "cleaned"
    /\ pc' = "cleaned_again"
    /\ result' = Merge(result, [cleaned_again |-> CleanSqlQuery(result["cleaned_query"])])
    /\ UNCHANGED <<state, running, pending, targets, invoked, collab, executed, refused,
                   valid_seen, route, log, failed_node, node_error, invoke_error, error,
                   response, request>>

\* limited = _ensure_limit(sql_query, max_rows), sql_query a str
NormalizerEnsureLimit ==
    /\ pc = "normalizer"
    /\ state["sql_query"].kind = "str"
    /\ pc' = "limited"
    /\ result' = [limited |-> EnsureLimit(state["sql_query"].text, state["max_rows"])]
    /\ UNCHANGED <<state, running, pending, targets, invoked, collab, executed, refused,
                   valid_seen, route, log, failed_node, node_error, invoke_error, error,
                   response, request>>

\* _ensure_limit(limited, max_rows)
NormalizerEnsureLimitAgain ==
    /\ pc = "limited"
    /\ pc' = "limited_again"
    /\ result' = Merge(result,
                       [limited_again |-> EnsureLimit(result["limited"], state["max_rows"])])
    /\ UNCHANGED <<state, running, pending, targets, invoked, collab, executed, refused,
                   valid_seen, route, log, failed_node, node_error, invoke_error, error,
                   response, request>>

NormalizerNext ==
    \/ NormalizerClean
    \/ NormalizerCleanAgain
    \/ NormalizerEnsureLimit
    \/ NormalizerEnsureLimitAgain

NormalizerSpec == NormalizerInit /\ [][NormalizerNext]_vars

\* C14 as stated: normalize is idempotent, for every text x and row cap m
\* normalize(normalize(x, m), m) = normalize(x, m).
C14_Idempotent ==
    /\ pc = "cleaned_again" => result["cleaned_again"] = result["cleaned_query"]
    /\ pc = "limited_again" => result["limited_again"] = result["limited"]

\* C14: clean_sql_query applied to its own output returns it unchanged whenever
\* that output does not begin with whitespace or with a triple-backtick fence,
\* and _ensure_limit applied to its own output returns it unchanged for every
\* text and row cap.
C14_IdempotentOnCleanOutput ==
    /\ pc = "cleaned_again" =>
           LET y == result["cleaned_query"]
           IN  (y = <<>> \/ (y[1] \notin Whitespace /\ ~StartsWith(y, Fence)))
                   => result["cleaned_again"] = y
    /\ pc = "limited_again" => result["limited_again"] = result["limited"]

C14_Witness ==
    /\ pc = "cleaned_again"
    /\ state["sql_query"] = PyStr(GenFenced)
    /\ result["cleaned_query"] = QueryCapped
    /\ result["cleaned_again"] = QueryCapped

\* C15 as stated: for every input text x the output of normalize(x, 1000) ends
\* with exactly one LIMIT n clause, and n <= 1000.
C15_EndsWithOneLimit ==
    (pc = "cleaned" /\ state["sql_query"].kind = "str") =>
        LET y == result["cleaned_query"]
            clause(t, i, j) ==
                /\ Upper(SubSeq(t, i, i + 4)) = LimitWord
                /\ i = 1 \/ ~IsWordChar(t[i - 1])
                /\ \A k \in (i + 5)..j : t[k] \in Whitespace
                /\ \A k \in (j + 1)..Len(t) : IsDigit(t[k])
        IN  \E i \in 1..Len(y) : \E j \in (i + 5)..(Len(y) - 1) :
                /\ clause(y, i, j)
                /\ TextToInt(SubSeq(y, j + 1, Len(y))) <= MAX_QUERY_ROWS

\* C15: for every input text x the output of clean_sql_query is either empty or
\* ends with a LIMIT n clause with n <= 1000; what stands before that clause is
\* a part of the input, and it ends with a LIMIT clause of its own only where
\* the input already had one LIMIT clause after another.
C15_EndsWithOneLimitUnlessEmpty ==
    (pc = "cleaned" /\ state["sql_query"].kind = "str") =>
        LET x == state["sql_query"].text
            y == result["cleaned_query"]
            clause(t, i, j) ==
                /\ Upper(SubSeq(t, i, i + 4)) = LimitWord
                /\ i = 1 \/ ~IsWordChar(t[i - 1])
                /\ \A k \in (i + 5)..j : t[k] \in Whitespace
                /\ \A k \in (j + 1)..Len(t) : IsDigit(t[k])
            endsWithClause(t) ==
                \E i \in 1..Len(t) : \E j \in (i + 5)..(Len(t) - 1) : clause(t, i, j)
        IN  \/ y = <<>>
            \/ \E i \in 1..Len(y) : \E j \in (i + 5)..(Len(y) - 1) :
                   LET before == RStrip(SubSeq(y, 1, i - 1))
                   IN  /\ clause(y, i, j)
                       /\ TextToInt(SubSeq(y, j + 1, Len(y))) <= MAX_QUERY_ROWS
                       /\ before = <<>> \/ Contains(x, before)
                       /\ endsWithClause(before)
                              => Contains(x, before \o <<" ">> \o LimitWord)

C15_Witness ==
    /\ pc = "cleaned"
    /\ state["sql_query"] = PyStr(GenOverLimit)
    /\ result["cleaned_query"] = QueryCapped

\* C16: the LIMIT rule of _ensure_limit on a non-empty text. With t the text
\* without its trailing semicolons and whitespace: if t ends, in any letter case,
\* with a clause LIMIT k, then k > max_rows gives t with that clause replaced by
\* LIMIT max_rows and k <= max_rows gives t itself; if t ends with no such clause
\* the result is t followed by " LIMIT max_rows". 'SELECT 1 LIMIT 5000' with
\* cap 1000 becomes 'SELECT 1 LIMIT 1000'.
C16_LimitRule ==
    /\ (pc = "limited" /\ state["sql_query"].text # <<>>) =>
        LET max_rows == state["max_rows"]
            y == result["limited"]
            t == RStrip(RStripSet(RStrip(state["sql_query"].text), {";"}))
            clause(i, j) ==
                /\ Upper(SubSeq(t, i, i + 4)) = LimitWord
                /\ i = 1 \/ ~IsWordChar(t[i - 1])
                /\ \A k \in (i + 5)..j : t[k] \in Whitespace
                /\ \A k \in (j + 1)..Len(t) : IsDigit(t[k])
            found == {ij \in (1..Len(t)) \X (1..Len(t)) :
                         /\ ij[2] >= ij[1] + 5
                         /\ ij[2] <= Len(t) - 1
                         /\ clause(ij[1], ij[2])}
            capped == LimitWord \o <<" ">> \o IntToText(max_rows)
        IN  /\ \A ij \in found :
                   IF TextToInt(SubSeq(t, ij[2] + 1, Len(t))) > max_rows
                   THEN y = SubSeq(t, 1, ij[1] - 1) \o capped
                   ELSE y = t
            /\ found = {} => y = t \o <<" ">> \o capped
    /\ (pc = "limited" /\ state["sql_query"].text = GenOverLimit
                       /\ state["max_rows"] = MAX_QUERY_ROWS)
           => result["limited"] = QueryCapped

\* a clause in lower case under the cap is left as it is
C16_Witness ==
    /\ pc = "limited"
    /\ state["sql_query"].text = QueryLowerLimit \o <<";">>
    /\ state["max_rows"] = 10
    /\ result["limited"] = QueryLowerLimit

\* C17: fence stripping of clean_sql_query on a non-empty text. If the trimmed
\* input starts with three backticks, everything up to and including its first
\* line break is dropped, or just the three backticks when it has no line break;
\* then three backticks at the end are dropped; the rest is trimmed and only then
\* goes through the semicolon and LIMIT steps. The text of a fenced 'SELECT 1;'
\* with the language tag sql becomes 'SELECT 1 LIMIT 1000'.
C17_FenceStripping ==
    /\ (pc = "cleaned" /\ state["sql_query"].kind = "str"
                       /\ state["sql_query"].text # <<>>) =>
        LET trimmed == Strip(state["sql_query"].text)
            n       == Len(trimmed)
            fenced(t, i) == i >= 1 /\ i + 2 <= Len(t)
                                /\ \A k \in i..(i + 2) : t[k] = Backtick
            breaks  == {k \in 1..n : trimmed[k] = "\n"}
            first   == CHOOSE k \in breaks : \A other \in breaks : k <= other
            opened  == IF fenced(trimmed, 1)
                       THEN IF breaks # {}
                            THEN SubSeq(trimmed, first + 1, n)
                            ELSE SubSeq(trimmed, 4, n)
                       ELSE trimmed
            closed  == IF fenced(opened, Len(opened) - 2)
                       THEN SubSeq(opened, 1, Len(opened) - 3)
                       ELSE opened
        IN  result["cleaned_query"] = EnsureLimit(Strip(closed), MAX_QUERY_ROWS)
    /\ (pc = "cleaned" /\ state["sql_query"] = PyStr(GenFenced))
           => result["cleaned_query"] = QueryCapped

C17_Witness ==
    /\ pc = "cleaned"
    /\ state["sql_query"] = PyStr(GenFenced)
    /\ result["cleaned_query"] = QueryCapped

\* C18: for an empty text, a missing value (None) or a value that is no text,
\* clean_sql_query returns the empty text, and so does _ensure_limit for the
\* empty text: both return at their first statement.
C18_EmptyForNoText ==
    /\ (pc = "normalizer" /\ (state["sql_query"].kind # "str"
                                 \/ state["sql_query"].text = <<>>))
           => CleanSqlQueryAny(state["sql_query"]) = <<>>
    /\ (pc \in {"cleaned", "cleaned_again"}
            /\ (state["sql_query"].kind # "str" \/ state["sql_query"].text = <<>>))
           => result["cleaned_query"] = <<>>
    /\ (pc \in {"limited", "limited_again"} /\ state["sql_query"].text = <<>>)
           => result["limited"] = <<>>

C18_Witness ==
    /\ pc = "cleaned"
    /\ state["sql_query"] = PyNone
    /\ result["cleaned_query"] = <<>>

(***************************************************************************)
(* The view text2sql: the status of the HTTPException it raises for what   *)
(* process_query raised.                                                   *)
(***************************************************************************)
\* Text2SQLException and its subclasses
Text2SQLExceptionClasses ==
    {"Text2SQLException", "LLMClientException", "DatabaseConnectionException",
     "SQLExecutionException", "MetadataLoadException", "SQLValidationException",
     "WorkflowException"}

\* the except clauses of text2sql
Text2sqlStatus(e) ==
    IF e.cls \in Text2SQLExceptionClasses
    THEN e.status_code
    ELSE IF e.cls = "ValueError"
    THEN 400
    ELSE 500

\* C19: a failed request reaches the HTTP client with a status given by the cause
\* of the failure: 400 for a request text that is empty or blank, 502 when a call
\* to the completion provider failed, 503 when the database failed, 500 for any
\* other error, also when the failure happened inside a workflow step.
C19_StatusByCause ==
    pc = "failed" =>
        LET status == Text2sqlStatus(error)
            last   == log[Len(log)]
        IN  IF failed_node = "none"
            THEN status = 400
            ELSE IF last.provider_failed
                        /\ failed_node \in {"generate_sql", "generate_summary",
                                            "get_followup_que"}
            THEN status = 502
            ELSE IF last.provider_failed /\ failed_node = "execute_sql"
            THEN status = 503
            ELSE status = 500

(***************************************************************************)
(* The validation step on its own: _validate_sql_query applied to a drawn  *)
(* state, the states no full run reaches (no schema, no query) included.   *)
(***************************************************************************)
ValidationStates ==
    {Merge(Merge(Merge([input_text |-> InputQuestion, max_iterations |-> MaxIterations], q),
                 md), rc) :
        q \in {EmptyDict} \cup {[generated_sql_query |-> t] :
                                   t \in {<<>>, GenBlank, Fence, GenFenced, GenOverLimit}},
        md \in {EmptyDict, [metadata |-> <<>>], [metadata |-> SchemaText]},
        rc \in {EmptyDict} \cup {[retry_count |-> r] : r \in 0..MaxIterations}}

ValidationInit ==
    /\ pc = "validation"
    /\ state \in ValidationStates
    /\ running = {}
    /\ pending = EmptyDict
    /\ targets = {}
    /\ invoked = [n \in Nodes |-> 0]
    /\ collab = [n \in Nodes |-> 0]
    /\ executed = <<>>
    /\ refused = FALSE
    /\ valid_seen = FALSE
    /\ route = "none"
    /\ log = <<>>
    /\ failed_node = "none"
    /\ node_error = NoException
    /\ invoke_error = NoException
    /\ error = NoException
    /\ result = EmptyDict
    /\ response = NoResponse
    /\ request = NoRequest

\* updates = self._validate_sql_query(state), the provider answering or failing
ValidationApply ==
    /\ pc = "validation"
    /\ \E resp \in ValResponses(TRUE) :
           LET out == ValidateSqlQueryNode(state, resp)
           IN  /\ ~out.raised
               /\ pc' = "validated"
               /\ result' = out.value
               /\ collab' = [collab EXCEPT !["validate_sql_query"] = @ + out.called]
    /\ UNCHANGED <<state, running, pending, targets, invoked, executed, refused, valid_seen,
                   route, log, failed_node, node_error, invoke_error, error, response,
                   request>>

ValidationNext == ValidationApply

ValidationSpec == ValidationInit /\ [][ValidationNext]_vars

\* C20: every execution of the validation step that returns writes retry_count
\* one more than the retry_count it was given (0 when the state holds none),
\* whether the query was judged valid or invalid, was empty, or there was no
\* schema to check it against.
C20_AlwaysIncrements ==
    pc = "validated" =>
        /\ "retry_count" \in DOMAIN result
        /\ result["retry_count"] = Get(state, "retry_count", 0) + 1

\* the missing-schema short-circuit: valid without asking the provider
C20_Witness ==
    /\ pc = "validated"
    /\ "metadata" \notin DOMAIN state
    /\ Get(state, "generated_sql_query", <<>>) = GenFenced
    /\ Get(state, "retry_count", 0) = 1
    /\ collab["validate_sql_query"] = 0
    /\ result["is_valid_sql"]
    /\ result["retry_count"] = 2

\* C21: at the end of every run that returns (started with retry_count = 0) the
\* validation step has been executed as many times as the generation step, and
\* the retry_count of the returned state is that number.
C21_ValidationsMatchGenerations ==
    pc = "done" =>
        /\ invoked["validate_sql_query"] = invoked["generate_sql"]
        /\ Cardinality({i \in 1..Len(log) : log[i].node = "validate_sql_query"})
               = Cardinality({i \in 1..Len(log) : log[i].node = "generate_sql"})
        /\ result["retry_count"] = invoked["validate_sql_query"]

\* a run that went round the loop twice
C21_Witness ==
    /\ pc = "done"
    /\ invoked["generate_sql"] = 2
    /\ invoked["validate_sql_query"] = 2
    /\ result["retry_count"] = 2

\* C23: at each fan-out both successors are given the state as merged right
\* after the fan-out node. After get_metadata, generate_sql (its first
\* execution) and get_followup_que read the request's fields and the metadata
\* just written, and neither the other's fields; after execute_sql,
\* generate_chart and generate_summary read the data just written and neither a
\* chart nor a summary; two siblings read the same state, whichever returns first.
C23_SiblingsReadForkState ==
    LET entries(n) == {i \in 1..Len(log) : log[i].node = n}
        first(n)   == CHOOSE i \in entries(n) : \A j \in entries(n) : i <= j
        wrote(n)   == log[first(n)].value
        afterMetadata == {i \in entries("get_followup_que") \cup entries("generate_sql") :
                             log[i].node = "generate_sql" => i = first("generate_sql")}
        afterExecute  == entries("generate_chart") \cup entries("generate_summary")
    IN  /\ \A i \in afterMetadata :
               /\ DOMAIN log[i].read
                      = {"input_text", "max_iterations", "retry_count", "metadata"}
               /\ log[i].read["metadata"] = wrote("get_metadata")["metadata"]
        /\ \A i \in afterExecute :
               /\ "data" \in DOMAIN log[i].read
               /\ log[i].read["data"] = wrote("execute_sql")["data"]
               /\ "chart" \notin DOMAIN log[i].read
               /\ "summary" \notin DOMAIN log[i].read
        /\ \A i, j \in afterMetadata : log[i].read = log[j].read
        /\ \A i, j \in afterExecute : log[i].read = log[j].read

\* the summary step returns after the chart step has returned, and has not seen
\* the chart
C23_Witness ==
    /\ Len(log) >= 2
    /\ log[Len(log) - 1].node = "generate_chart"
    /\ log[Len(log)].node = "generate_summary"
    /\ ~log[Len(log)].raised
    /\ "chart" \in DOMAIN pending["generate_chart"]
    /\ log[Len(log)].read = log[Len(log) - 1].read
    /\ \E i \in 1..Len(log) : \E j \in 1..Len(log) :
           /\ i < j
           /\ log[i].node = "generate_sql"
           /\ log[j].node = "get_followup_que"

(***************************************************************************)
(* Two calls of process_query running at once on the one service, in two   *)
(* threads of the view's executor. Here pc, state, running, pending,       *)
(* targets, log and result hold one value for each run.                    *)
(***************************************************************************)
Runs == {1, 2}

InputOther ==
    <<"L", "i", "s", "t", " ", "s", "t", "o", "r", "e", "s">>

\* the arguments of the two calls
RunRequests ==
    <<Text2SQLRequest(InputQuestion, 1, NoPath),
      Text2SQLRequest(InputOther, MaxIterations, NoPath)>>

\* what the collaborator of node n may answer to a run
ConcurrentAnswers(n) ==
    CASE n = "get_metadata"       -> MetadataFiles(FALSE)
      [] n = "generate_sql"       -> {LlmAnswer(GenFenced), LlmAnswer(GenRefusal)}
      [] n = "validate_sql_query" -> ValResponses(FALSE)
      [] n = "execute_sql"        -> {DbRows(<<RowA>>), DbRows(<<RowB>>), DbFailure}
      [] n = "generate_summary"   -> {[prep_fails |-> FALSE, llm |-> LlmAnswer(SummaryShort)]}
      [] n = "get_followup_que"   -> FollowupResponses(FALSE)
      [] OTHER                    -> {LlmAnswer(<<>>)}

\* the node function of n applied to state s, its collaborator answering x
NodeFunction(n, s, x) ==
    CASE n = "get_metadata"        -> GetMetadataNode(s, x)
      [] n = "generate_sql"        -> GenerateSqlNode(s, x)
      [] n = "validate_sql_query"  -> ValidateSqlQueryNode(s, x)
      [] n = "execute_sql"         -> ExecuteSqlNode(s, x)
      [] n = "generate_summary"    -> GenerateSummaryNode(s, x)
      [] n = "generate_chart"      -> GenerateChartNode(s)
      [] n = "get_followup_que"    -> GetFollowupQueNode(s, x)
      [] n = "handle_unanswerable" -> HandleUnanswerableNode(s)

\* one state for the whole process, whichever run asks
OwnStateShared(all, r) == all[1]

\* the state instance of run r: initial_state = request.to_state() is a local
\* of the call, and the graph run works on its own copy
OwnState(all, r) == all[r]

ConcurrentInit ==
    /\ pc = [r \in Runs |-> "idle"]
    /\ state = [r \in Runs |-> EmptyDict]
    /\ running = [r \in Runs |-> {}]
    /\ pending = [r \in Runs |-> EmptyDict]
    /\ targets = [r \in Runs |-> {}]
    /\ log = [r \in Runs |-> <<>>]
    /\ result = [r \in Runs |-> EmptyDict]
    /\ invoked = [n \in Nodes |-> 0]
    /\ collab = [n \in Nodes |-> 0]
    /\ executed = <<>>
    /\ refused = FALSE
    /\ valid_seen = FALSE
    /\ route = "none"
    /\ failed_node = "none"
    /\ node_error = NoException
    /\ invoke_error = NoException
    /\ error = NoException
    /\ response = NoResponse
    /\ request = NoRequest

\* run r: process_query builds the request and its state and invokes the graph
ConcurrentProcessQuery(r) ==
    /\ pc[r] = "idle"
    /\ pc' = [pc EXCEPT ![r] = "running"]
    /\ state' = [state EXCEPT
                     ![r] = ToState(RunRequests[r])]
    /\ running' = [running EXCEPT ![r] = {"get_metadata"}]
    /\ UNCHANGED <<pending, targets, log, result>>

\* run r: one of its running nodes returns or raises
ConcurrentNode(r) ==
    /\ pc[r] = "running"
    /\ \E n \in running[r] : \E x \in ConcurrentAnswers(n) :
           LET s    == OwnState(state, r)
               out  == NodeFunction(n, s, x)
               next == IF n = "validate_sql_query"
                       THEN {CheckCondition(Merge(s, out.value))}
                       ELSE Successors(n)
           IN  /\ log' = [log EXCEPT ![r] = Append(@, [node |-> n, read |-> s, heard |-> x,
                                                       value |-> out.value,
                                                       raised |-> out.raised])]
               /\ IF out.raised
                  THEN /\ pc' = [pc EXCEPT ![r] = "failed"]
                       /\ UNCHANGED <<running, pending, targets>>
                  ELSE /\ running' = [running EXCEPT ![r] = @ \ {n}]
                       /\ pending' = [pending EXCEPT ![r] = Merge(@, [k \in {n} |-> out.value])]
                       /\ targets' = [targets EXCEPT ![r] = @ \cup next]
                       /\ UNCHANGED pc
    /\ UNCHANGED <<state, result>>

\* run r: the end of a superstep of its graph run
ConcurrentSuperstep(r) ==
    /\ pc[r] = "running"
    /\ running[r] = {}
    /\ state' = [state EXCEPT ![r] = ApplyWrites(OwnState(state, r), pending[r])]
    /\ pending' = [pending EXCEPT ![r] = EmptyDict]
    /\ targets' = [targets EXCEPT ![r] = {}]
    /\ IF targets[r] = {}
       THEN /\ pc' = [pc EXCEPT ![r] = "done"]
            /\ result' = [result EXCEPT ![r] = ApplyWrites(OwnState(state, r), pending[r])]
            /\ UNCHANGED running
       ELSE /\ running' = [running EXCEPT ![r] = targets[r]]
            /\ UNCHANGED <<pc, result>>
    /\ UNCHANGED log

ConcurrentNext ==
    /\ \E r \in Runs :
           \/ ConcurrentProcessQuery(r)
           \/ ConcurrentNode(r)
           \/ ConcurrentSuperstep(r)
    /\ UNCHANGED <<invoked, collab, executed, refused, valid_seen, route, failed_node,
                   node_error, invoke_error, error, response, request>>

ConcurrentSpec == ConcurrentInit /\ [][ConcurrentNext]_vars

\* C22: two runs executing at once on the same service and graph do not
\* interfere. Under every interleaving of their steps, each node function of a
\* run is given that run's own state (its own input_text and max_iterations, and
\* only fields its own nodes returned), what it returns is fixed by that state
\* and by the answer the run's collaborator gave, and the state a run returns is
\* its own initial state with the updates of its own nodes merged in, whatever
\* the other run did in between.
C22_RunsDoNotInterfere ==
    \A r \in Runs :
        LET initial == ToState(RunRequests[r])
            RECURSIVE merged(_, _)
            merged(s, i) == IF i > Len(log[r])
                            THEN s
                            ELSE merged(Merge(s, log[r][i].value), i + 1)
            own(k, v) == \/ k \in DOMAIN initial /\ v = initial[k]
                         \/ \E j \in 1..Len(log[r]) :
                                k \in DOMAIN log[r][j].value /\ v = log[r][j].value[k]
        IN  /\ \A i \in 1..Len(log[r]) :
                   /\ log[r][i].read["input_text"] = RunRequests[r].input_text
                   /\ log[r][i].read["max_iterations"] = RunRequests[r].max_iterations
                   /\ \A k \in DOMAIN log[r][i].read \ {"input_text", "max_iterations"} :
                          own(k, log[r][i].read[k])
                   /\ log[r][i].value
                          = NodeFunction(log[r][i].node, log[r][i].read, log[r][i].heard).value
            /\ pc[r] = "done" => result[r] = merged(initial, 1)
            /\ pc[r] # "done" => result[r] = EmptyDict

\* run 1 has returned the rows its query fetched while run 2, on other rows, is
\* in its chart and summary steps
C22_Witness ==
    /\ pc[1] = "done"
    /\ result[1]["input_text"] = InputQuestion
    /\ result[1]["data"] = <<RowA>>
    /\ pc[2] = "running"
    /\ running[2] = {"generate_chart", "generate_summary"}
    /\ state[2]["input_text"] = InputOther
    /\ state[2]["data"] = <<RowB>>

\* the schema description in the file at CustomPath
CustomSchemaText ==
    <<"s", "t", "o", "r", "e", "s", "(", "i", "d", ")", "\n">>

\* C24: the metadata_path of the request selects the metadata of the run: when
\* it is given, the metadata step returns the schema description of the file at
\* that path, and when it is omitted that of the default file.
C24_MetadataPathSelects ==
    \A i \in 1..Len(log) :
        (log[i].node = "get_metadata" /\ ~log[i].raised) =>
            log[i].value["metadata"]
                = IF request.metadata_path = NoPath THEN SchemaText ELSE CustomSchemaText

\* C25: once get_metadata has returned, the generation step and the follow-up
\* step are started together, and neither waits for or reads the other's
\* outcome: whenever one of them has returned or raised, the other has been
\* started, and the follow-up step was given no field of the generation step
\* and the first generation step no field of the follow-up step.
C25_BranchesIndependent ==
    /\ (invoked["generate_sql"] >= 1) <=> (invoked["get_followup_que"] >= 1)
    /\ (\E i \in 1..Len(log) : log[i].node = "get_metadata" /\ ~log[i].raised)
           => \/ "get_metadata" \in DOMAIN pending
              \/ invoked["generate_sql"] >= 1 /\ invoked["get_followup_que"] = 1
    /\ \A i \in 1..Len(log) :
           /\ log[i].node = "generate_sql" => invoked["get_followup_que"] = 1
           /\ log[i].node = "get_followup_que"
                  => /\ invoked["generate_sql"] >= 1
                     /\ DOMAIN log[i].read \cap {"generated_sql_query", "is_unanswerable",
                                                 "unanswerable_reason"} = {}
           /\ (log[i].node = "generate_sql"
                   /\ \A j \in 1..(i - 1) : log[j].node # "generate_sql")
                  => "followup_que" \notin DOMAIN log[i].read

\* the generation step fails after the follow-up step has returned its questions
C25_Witness ==
    /\ pc = "failed"
    /\ failed_node = "generate_sql"
    /\ Len(log) = 3
    /\ log[2].node = "get_followup_que"
    /\ ~log[2].raised
    /\ Len(log[2].value["followup_que"]) = FollowupCount
    /\ log[3].node = "generate_sql"
    /\ log[3].raised

(***************************************************************************)
(* The execution step on its own: _execute_sql applied to a drawn state,   *)
(* the states without a query included.                                    *)
(***************************************************************************)
ExecutionStates ==
    {Merge(Merge([input_text |-> InputQuestion, is_valid_sql |-> v], c), g) :
        v \in BOOLEAN,
        c \in {EmptyDict} \cup {[cleaned_query |-> t] :
                                   t \in {<<>>, QueryCapped, QueryLowerLimit}},
        g \in {EmptyDict} \cup {[generated_sql_query |-> t] :
                                   t \in {<<>>, GenBlank, GenFenced, GenOverLimit}}}

ExecutionInit ==
    /\ pc = "running"
    /\ state \in ExecutionStates
    /\ running = {"execute_sql"}
    /\ pending = EmptyDict
    /\ targets = {}
    /\ invoked = [n \in Nodes |-> IF n = "execute_sql" THEN 1 ELSE 0]
    /\ collab = [n \in Nodes |-> 0]
    /\ executed = <<>>
    /\ refused = FALSE
    /\ valid_seen = FALSE
    /\ route = "none"
    /\ log = <<>>
    /\ failed_node = "none"
    /\ node_error = NoException
    /\ invoke_error = NoException
    /\ error = NoException
    /\ result = EmptyDict
    /\ response = NoResponse
    /\ request = NoRequest

ExecutionNext == NodeExecuteSql(TRUE)

ExecutionSpec == ExecutionInit /\ [][ExecutionNext]_vars

\* C26: the execution step hands cleaned_query to the query executor when it is
\* non-empty and generated_sql_query otherwise; when both are absent or empty
\* it fails and the database is not asked; when the executor fails (the
\* database refusing the query, or the text being blank) the step fails; and
\* when the executor returns, the step returns its rows as data.
C26_ExecutionStep ==
    \A i \in 1..Len(log) :
        log[i].node = "execute_sql" =>
            LET s       == log[i].read
                cleaned == IF "cleaned_query" \in DOMAIN s THEN s["cleaned_query"] ELSE <<>>
                generated == IF "generated_sql_query" \in DOMAIN s
                             THEN s["generated_sql_query"]
                             ELSE <<>>
                query   == IF cleaned # <<>> THEN cleaned ELSE generated
                blank   == \A k \in 1..Len(query) : query[k] \in Whitespace
            IN  /\ query = <<>> => (log[i].raised /\ log[i].called = 0 /\ executed = <<>>)
                /\ (query # <<>> /\ blank) => (log[i].raised /\ executed = <<>>)
                /\ (query # <<>> /\ ~blank) =>
                       /\ log[i].called = 1
                       /\ executed = <<query>>
                       /\ log[i].provider_failed => log[i].raised
                       /\ ~log[i].provider_failed =>
                              (~log[i].raised /\ DOMAIN log[i].value = {"data"})
                /\ log[i].raised =>
                       (pc = "failed" /\ node_error.workflow_step = "execute_sql")

\* no cleaned query: the generated text goes to the database
C26_Witness ==
    /\ Len(log) = 1
    /\ log[1].node = "execute_sql"
    /\ Get(log[1].read, "cleaned_query", QueryCapped) = <<>>
    /\ Get(log[1].read, "generated_sql_query", <<>>) = GenOverLimit
    /\ executed = <<GenOverLimit>>
    /\ ~log[1].raised
    /\ log[1].value["data"] = <<RowA, RowB>>

\* C27: when the generated query is missing, empty, or normalizes to the empty
\* text, the validation step returns is_valid_sql = false without calling the
\* completion provider, and retry_count is one more than before all the same.
C27_EmptyQueryShortCircuit ==
    (pc = "validated"
        /\ \/ "generated_sql_query" \notin DOMAIN state
           \/ state["generated_sql_query"] = <<>>
           \/ CleanSqlQuery(state["generated_sql_query"]) = <<>>)
        => /\ result["is_valid_sql"] = FALSE
           /\ result["cleaned_query"] = <<>>
           /\ collab["validate_sql_query"] = 0
           /\ result["retry_count"] = Get(state, "retry_count", 0) + 1

\* a fence with nothing in it, a schema at hand: invalid, the provider not asked
C27_Witness ==
    /\ pc = "validated"
    /\ Get(state, "generated_sql_query", <<>>) = Fence
    /\ Get(state, "metadata", <<>>) = SchemaText
    /\ Get(state, "retry_count", 0) = 1
    /\ result["is_valid_sql"] = FALSE
    /\ collab["validate_sql_query"] = 0
    /\ result["retry_count"] = 2

\* C28: every execution of the validation step that returns produces is_valid_sql
\* and cleaned_query, and cleaned_query is the normal form of the query the
\* generation step of the same iteration returned, whatever cleaned_query an
\* earlier iteration left in the state; the merged state holds the new one.
C28_CleanedQueryOfThisIteration ==
    /\ \A i \in 1..Len(log) :
           (log[i].node = "validate_sql_query" /\ ~log[i].raised) =>
               /\ {"is_valid_sql", "cleaned_query"} \subseteq DOMAIN log[i].value
               /\ log[i].value["is_valid_sql"] \in BOOLEAN
               /\ log[i].value["cleaned_query"]
                      = CleanSqlQuery(Get(log[i].read, "generated_sql_query", <<>>))
               /\ \E j \in 1..(i - 1) :
                      /\ log[j].node = "generate_sql"
                      /\ \A k \in (j + 1)..(i - 1) : log[k].node # "generate_sql"
                      /\ log[j].value["generated_sql_query"]
                             = Get(log[i].read, "generated_sql_query", <<>>)
    /\ (pc = "done" /\ "cleaned_query" \in DOMAIN result)
           => result["cleaned_query"] = CleanSqlQuery(result["generated_sql_query"])

\* the second iteration's query is empty and its normal form replaces the first one's
C28_Witness ==
    /\ Len(log) >= 2
    /\ log[Len(log)].node = "validate_sql_query"
    /\ ~log[Len(log)].raised
    /\ Get(log[Len(log)].read, "cleaned_query", <<>>) = QueryCapped
    /\ log[Len(log)].read["generated_sql_query"] = <<>>
    /\ log[Len(log)].value["cleaned_query"] = <<>>

(***************************************************************************)
(* The generation step on its own: _generate_sql applied to a state that   *)
(* may lack the question or the schema, on a first or a later iteration,   *)
(* the provider answering, refusing or failing.                            *)
(***************************************************************************)
GenerationStates ==
    {Merge(Merge([max_iterations |-> MaxIterations, retry_count |-> 0], q), Merge(md, g)) :
        q \in {EmptyDict} \cup {[input_text |-> t] : t \in {<<>>, InputBlank, InputQuestion}},
        md \in {EmptyDict, [metadata |-> <<>>], [metadata |-> SchemaText]},
        g \in {EmptyDict, [generated_sql_query |-> GenOverLimit]}}

GenerationInit ==
    /\ pc = "generation"
    /\ state \in GenerationStates
    /\ running = {}
    /\ pending = EmptyDict
    /\ targets = {}
    /\ invoked = [n \in Nodes |-> 0]
    /\ collab = [n \in Nodes |-> 0]
    /\ executed = <<>>
    /\ refused = FALSE
    /\ valid_seen = FALSE
    /\ route = "none"
    /\ log = <<>>
    /\ failed_node = "none"
    /\ node_error = NoException
    /\ invoke_error = NoException
    /\ error = NoException
    /\ result = EmptyDict
    /\ response = NoResponse
    /\ request = NoRequest

\* updates = self._generate_sql(state), the provider answering or failing
GenerationApply ==
    /\ pc = "generation"
    /\ \E resp \in GenResponses(TRUE) :
           LET out == GenerateSqlNode(state, resp)
           IN  /\ pc' = IF out.raised THEN "generation_failed" ELSE "generated"
               /\ result' = IF out.raised THEN result ELSE out.value
               /\ node_error' = IF out.raised THEN out.exc ELSE node_error
               /\ failed_node' = IF out.raised THEN "generate_sql" ELSE failed_node
               /\ collab' = [collab EXCEPT !["generate_sql"] = @ + out.called]
               /\ log' = Append(log, [node |-> "generate_sql", read |-> state, heard |-> resp,
                                      called |-> out.called, value |-> out.value,
                                      raised |-> out.raised])
    /\ UNCHANGED <<state, running, pending, targets, invoked, executed, refused, valid_seen,
                   route, invoke_error, error, response, request>>

GenerationNext == GenerationApply

GenerationSpec == GenerationInit /\ [][GenerationNext]_vars

\* C29: the generation step fails, the completion provider not called, when
\* input_text or metadata is absent or empty; when the provider's response is a
\* refusal marker (it begins with UNANSWERABLE, in capitals or not) the step
\* returns is_unanswerable = true, unanswerable_reason = the text of the
\* response after the marker, and generated_sql_query = ""; otherwise it
\* returns the response as generated_sql_query and does not set is_unanswerable.
C29_GenerationStep ==
    pc \in {"generated", "generation_failed"} =>
        LET s        == log[1].read
            heard    == log[1].heard
            missing  == \/ Get(s, "input_text", <<>>) = <<>>
                        \/ Get(s, "metadata", <<>>) = <<>>
            answered == ~heard.fail /\ heard.content # <<>>
            text     == Strip(heard.content)
            marked   == /\ Len(text) >= Len(UnanswerableMarker)
                        /\ Upper(SubSeq(text, 1, Len(UnanswerableMarker))) = UnanswerableMarker
            after    == LET n == Len(UnanswerableMarker)
                            from == IF Len(text) > n /\ text[n + 1] = ":" THEN n + 2 ELSE n + 1
                        IN  Strip(SubSeq(text, from, Len(text)))
        IN  /\ missing => (pc = "generation_failed" /\ collab["generate_sql"] = 0)
            /\ (~missing /\ ~answered) => pc = "generation_failed"
            /\ (~missing /\ answered /\ marked) =>
                   /\ pc = "generated"
                   /\ result = [generated_sql_query |-> <<>>, is_unanswerable |-> TRUE,
                                unanswerable_reason |-> after]
            /\ (~missing /\ answered /\ ~marked) =>
                   /\ pc = "generated"
                   /\ result = [generated_sql_query |-> text]


\* C30: the partial update a step returns holds only fields that step owns
\* (get_metadata: metadata; generate_sql: generated_sql_query, is_unanswerable,
\* unanswerable_reason; validation: cleaned_query, is_valid_sql, retry_count;
\* execute_sql: data; summary: summary; chart: chart; follow-up: followup_que;
\* unanswerable: data, summary), and merging the updates of a superstep keeps
\* every field of the state, changing one only to the value that a step owning
\* it returned in that superstep.
C30_StepsWriteOwnFields ==
    [][LET Owned(n) ==
               CASE n = "get_metadata" -> {"metadata"}
                 [] n = "generate_sql" -> {"generated_sql_query", "is_unanswerable",
                                           "unanswerable_reason"}
                 [] n = "validate_sql_query" -> {"cleaned_query", "is_valid_sql",
                                                 "retry_count"}
                 [] n = "execute_sql" -> {"data"}
                 [] n = "generate_summary" -> {"summary"}
                 [] n = "generate_chart" -> {"chart"}
                 [] n = "get_followup_que" -> {"followup_que"}
                 [] n = "handle_unanswerable" -> {"data", "summary"}
                 [] OTHER -> {}
       IN  /\ \A i \in 1..Len(log') :
                  ~log'[i].raised => DOMAIN log'[i].value \subseteq Owned(log'[i].node)
           /\ pc = "running" =>
                  \A k \in DOMAIN state :
                      /\ k \in DOMAIN state'
                      /\ state'[k] # state[k] =>
                             \E n \in DOMAIN pending :
                                 /\ k \in Owned(n)
                                 /\ k \in DOMAIN pending[n]
                                 /\ state'[k] = pending[n][k]]_vars

\* an answered run after a retry: every step has written, the schema of the
\* first step and the question of the request are still in the final state
C30_Witness ==
    /\ pc = "done"
    /\ {"input_text", "max_iterations", "metadata", "generated_sql_query", "cleaned_query",
        "is_valid_sql", "retry_count", "data", "summary", "chart", "followup_que"}
           \subseteq DOMAIN result
    /\ result["metadata"] = SchemaText
    /\ result["input_text"] = InputQuestion
    /\ result["retry_count"] = 2
    /\ \E i \in 1..Len(log) : log[i].node = "generate_sql" /\ "cleaned_query" \in DOMAIN log[i].read

\* C31: get_metadata is the single entry node: in every run of the workflow it
\* is the first step to finish, it is invoked exactly once, no other step is
\* invoked unless it has returned, and a metadata source that is missing or
\* holds no schema fails the run with no other step invoked and no completion
\* or database call made.
C31_MetadataIsEntry ==
    LET others == Nodes \ {"get_metadata"}
    IN  /\ invoked["get_metadata"] <= 1
        /\ (pc \in {"running", "done"} \/ Len(log) > 0) => invoked["get_metadata"] = 1
        /\ Len(log) > 0 => log[1].node = "get_metadata"
        /\ \A n \in others :
               invoked[n] > 0 => (Len(log) > 0 /\ ~log[1].raised)
        /\ (Len(log) > 0 /\ log[1].provider_failed) =>
               /\ log[1].raised
               /\ pc = "failed"
               /\ Len(log) = 1
               /\ \A n \in others : invoked[n] = 0 /\ collab[n] = 0

\* the metadata file holds only blanks: the run has failed at its first step
C31_Witness ==
    /\ pc = "failed"
    /\ Len(log) = 1
    /\ log[1].node = "get_metadata"
    /\ log[1].raised
    /\ log[1].provider_failed
    /\ failed_node = "get_metadata"
    /\ invoked["generate_sql"] = 0
    /\ invoked["get_followup_que"] = 0

\* C32 (as stated): _ensure_limit removes exactly one trailing semicolon,
\* together with the trailing whitespace, before the LIMIT check, and never
\* adds a semicolon back: its result holds one semicolon fewer than the text
\* it was given when that text ends, whitespace apart, with a semicolon, and
\* as many otherwise.
C32_OneSemicolonRemoved ==
    pc = "limited" =>
        LET t        == state["sql_query"].text
            w        == RStrip(t)
            count(x) == Cardinality({i \in 1..Len(x) : x[i] = ";"})
            ends     == Len(w) > 0 /\ w[Len(w)] = ";"
        IN  t # <<>> =>
                count(result["limited"]) = count(t) - (IF ends THEN 1 ELSE 0)

\* C32 (amended): _ensure_limit removes the trailing whitespace, then every
\* semicolon of the run that ends the text, then the whitespace before that
\* run, before the LIMIT check; the LIMIT check appends a clause to that core,
\* rewrites its last clause or leaves it as it is; the result never ends with
\* a semicolon and holds no semicolon the core did not hold.
C32_SemicolonRunRemoved ==
    pc = "limited" =>
        LET t        == state["sql_query"].text
            w        == RStrip(t)
            count(x) == Cardinality({i \in 1..Len(x) : x[i] = ";"})
            run      == IF \E i \in 1..Len(w) : w[i] # ";"
                        THEN Len(w) - (CHOOSE i \in 1..Len(w) :
                                           /\ w[i] # ";"
                                           /\ \A j \in (i + 1)..Len(w) : w[j] = ";")
                        ELSE Len(w)
            core     == RStrip(SubSeq(w, 1, Len(w) - run))
            clause   == LimitWord \o <<" ">> \o IntToText(state["max_rows"])
            out      == result["limited"]
        IN  t # <<>> =>
                /\ count(out) = count(t) - run
                /\ out[Len(out)] # ";"
                /\ \/ out = core
                   \/ out = core \o <<" ">> \o clause
                   \/ \E m \in 1..Len(core) : out = SubSeq(core, 1, m - 1) \o clause

\* two semicolons and a blank after the query: both semicolons are gone
C32_Witness ==
    /\ pc = "limited"
    /\ state["sql_query"].text = QuerySelectOne \o <<";", ";", " ">>
    /\ state["max_rows"] = MAX_QUERY_ROWS
    /\ result["limited"] = QueryCapped

(***************************************************************************)
(* The process around the service: the module globals of core/lifetime.py, *)
(* the startup and shutdown handlers, the health check of the view and the *)
(* connection pools of the two DatabaseClient objects (the singleton of    *)
(* lifetime.py, probed by the health check, and the one SQLExecutor builds *)
(* for the service).  Here pc is the phase of the process, state the       *)
(* globals, pending the pools, running the pool calls in progress, one per *)
(* worker thread, route the outcome of the last pool call, log the last    *)
(* health probe and response the last health report.                       *)
(***************************************************************************)
\* _executor = ThreadPoolExecutor(max_workers=4)
MaxWorkers == 4

\* DatabaseClient.__init__: max_connections: int = 5
MaxConnections == 5

Workers == 1..MaxWorkers

RuntimeError == Exception("RuntimeError", "none", 0, "none", "RuntimeError")

\* get_text2sql_service
GetText2sqlService(globals) ==
    IF globals["_text2sql_service"] = "None"
    THEN Raised(RuntimeError, 0)
    ELSE Returned(globals["_text2sql_service"], 0)

\* get_database_client
GetDatabaseClient(globals) ==
    IF globals["_database_client"] = "None"
    THEN Raised(RuntimeError, 0)
    ELSE Returned(globals["_database_client"], 0)

\* the pool a call takes its connection from: test_connection is called on
\* the singleton, execute_query on the client of the service's SQLExecutor
PoolOf(call) == IF call = "test_connection" THEN "singleton" ELSE "executor"

\* health_check reporting on the database alone
HealthCheckIgnoresService(globals, probe) ==
    LET db_status == IF GetDatabaseClient(globals).raised
                     THEN "not initialized"
                     ELSE CASE probe = "ok" -> "connected"
                            [] probe = "DatabaseConnectionException" -> "disconnected"
                            [] probe = "RuntimeError" -> "not initialized"
                            [] OTHER -> "error"
        service_status == IF GetText2sqlService(globals).raised
                          THEN "not initialized"
                          ELSE "available"
    IN  [status |-> IF db_status = "connected" THEN "healthy" ELSE "degraded",
         database |-> db_status,
         text2sql_service |-> service_status]

\* health_check: probe is what run_in_executor(_executor, test_connection) does
HealthCheck(globals, probe) ==
    LET db_status == IF GetDatabaseClient(globals).raised
                     THEN "not initialized"
                     ELSE CASE probe = "ok" -> "connected"
                            [] probe = "DatabaseConnectionException" -> "disconnected"
                            [] probe = "RuntimeError" -> "not initialized"
                            [] OTHER -> "error"
        service_status == IF GetText2sqlService(globals).raised
                          THEN "not initialized"
                          ELSE "available"
        is_healthy == db_status = "connected" /\ service_status = "available"
    IN  [status |-> IF is_healthy THEN "healthy" ELSE "degraded",
         database |-> db_status,
         text2sql_service |-> service_status]

ServerInit ==
    /\ pc = "created"
    /\ state = [_text2sql_service |-> "None", _database_client |-> "None"]
    /\ pending = [p \in {"singleton", "executor"} |-> [status |-> "none", used |-> 0]]
    /\ running = {}
    /\ targets = {}
    /\ invoked = [n \in Nodes |-> 0]
    /\ collab = [n \in Nodes |-> 0]
    /\ executed = <<>>
    /\ refused = FALSE
    /\ valid_seen = FALSE
    /\ route = "none"
    /\ log = <<>>
    /\ failed_node = "none"
    /\ node_error = NoException
    /\ invoke_error = NoException
    /\ error = NoException
    /\ result = EmptyDict
    /\ response = NoResponse
    /\ request = NoRequest

\* the startup handler: DatabaseClient() or Text2SQLService() may raise
Startup ==
    /\ pc = "created"
    /\ \E built \in {"none", "database_client", "both"} :
           /\ pc' = IF built = "both" THEN "started" ELSE "start_failed"
           /\ state' = [_database_client |-> IF built = "none" THEN "None" ELSE "instance",
                        _text2sql_service |-> IF built = "both" THEN "instance" ELSE "None"]
           /\ pending' = [p \in DOMAIN pending |->
                             IF \/ (p = "singleton" /\ built # "none")
                                \/ (p = "executor" /\ built = "both")
                             THEN [status |-> "open", used |-> 0]
                             ELSE pending[p]]
    /\ UNCHANGED <<running, targets, invoked, collab, executed, refused, valid_seen, route,
                   log, failed_node, node_error, invoke_error, error, result, response,
                   request>>

\* the shutdown handler, run when the requests in progress have ended:
\* httpx_client.aclose() returns or raises, and what it raises is suppressed
Shutdown ==
    /\ pc = "started"
    /\ running = {}
    /\ pc' = "stopped"
    /\ \E aclose_raises \in BOOLEAN :
           IF aclose_raises
           THEN UNCHANGED <<state, pending>>
           ELSE /\ state' = [_database_client |-> "None", _text2sql_service |-> "None"]
                /\ pending' = IF state["_database_client"] # "None"
                              THEN [pending EXCEPT !["singleton"].status = "closed"]
                              ELSE pending
    /\ UNCHANGED <<running, targets, invoked, collab, executed, refused, valid_seen, route,
                   log, failed_node, node_error, invoke_error, error, result, response,
                   request>>

\* GET /health
ServeHealthCheck ==
    /\ \E probe \in {"ok", "DatabaseConnectionException", "RuntimeError", "Exception"} :
           /\ probe = "ok" =>
                  (~GetDatabaseClient(state).raised /\ pending["singleton"].status = "open")
           /\ log' = <<[probe |-> probe, globals |-> state]>>
           /\ response' = HealthCheck(state, probe)
    /\ UNCHANGED <<pc, state, running, pending, targets, invoked, collab, executed, refused,
                   valid_seen, route, failed_node, node_error, invoke_error, error, result,
                   request>>

\* get_connection keeping the connection when the body of the with raised
PutConnectionOnSuccessOnly(c, ok) ==
    /\ c \in running
    /\ running' = running \ {c}
    /\ pending' = IF ok
                  THEN [pending EXCEPT ![PoolOf(c.call)].used = @ - 1]
                  ELSE pending
    /\ route' = IF ok THEN "returned" ELSE "raised"

\* get_connection, to the yield: a worker thread entering execute_query or
\* test_connection takes a connection, or getconn raises and none is taken
GetConnection(w, call) ==
    /\ \A c \in running : c.worker # w
    /\ IF call = "test_connection"
       THEN ~GetDatabaseClient(state).raised
       ELSE ~GetText2sqlService(state).raised
    /\ \E got \in BOOLEAN :
           IF /\ got
              /\ pending[PoolOf(call)].status = "open"
              /\ pending[PoolOf(call)].used < MaxConnections
           THEN /\ running' = running \cup {[worker |-> w, call |-> call]}
                /\ pending' = [pending EXCEPT ![PoolOf(call)].used = @ + 1]
                /\ route' = "taken"
           ELSE /\ route' = "pool_error"
                /\ UNCHANGED <<running, pending>>

\* get_connection, after the yield: finally putconn(conn), the body of the
\* with having returned (ok) or raised
PutConnection(c, ok) ==
    /\ c \in running
    /\ running' = running \ {c}
    /\ pending' = [pending EXCEPT ![PoolOf(c.call)].used = @ - 1]
    /\ route' = IF ok THEN "returned" ELSE "raised"

\* DatabaseClient.execute_query and test_connection on the worker threads
PoolCall ==
    /\ \/ \E w \in Workers, call \in {"execute_query", "test_connection"} :
              GetConnection(w, call)
       \/ \E c \in running, ok \in BOOLEAN : PutConnection(c, ok)
    /\ UNCHANGED <<pc, state, targets, invoked, collab, executed, refused, valid_seen, log,
                   failed_node, node_error, invoke_error, error, result, response, request>>

ServerNext == Startup \/ Shutdown \/ ServeHealthCheck \/ PoolCall

ServerSpec == ServerInit /\ [][ServerNext]_vars

\* C33: the health check probes the database and the service singleton
\* separately: it reports 'healthy' exactly when the database probe succeeded
\* and the service singleton is initialized and 'degraded' in every other
\* case, and the readiness of the service is checked and reported also when
\* the probe fails or the database client is not initialized.
C33_HealthyIffBoth ==
    (Len(log) > 0 /\ "probe" \in DOMAIN log[1]) =>
        LET globals    == log[1].globals
            probed_ok  == globals["_database_client"] # "None" /\ log[1].probe = "ok"
            service_ok == globals["_text2sql_service"] # "None"
        IN  /\ response.status = (IF probed_ok /\ service_ok THEN "healthy" ELSE "degraded")
            /\ response.database = "connected" <=> probed_ok
            /\ response.text2sql_service
                   = (IF service_ok THEN "available" ELSE "not initialized")

\* the database answers but the service was never built: degraded
C33_Witness ==
    /\ pc = "start_failed"
    /\ Len(log) > 0
    /\ log[1].probe = "ok"
    /\ response.status = "degraded"
    /\ response.database = "connected"
    /\ response.text2sql_service = "not initialized"

\* C39: get_text2sql_service and get_database_client return an instance only
\* after startup has completed and before shutdown; before startup both raise
\* RuntimeError, and once the shutdown handler has run both raise RuntimeError
\* again and the pool of the database client has been closed.
C39_SingletonLifecycle ==
    /\ (~GetText2sqlService(state).raised \/ ~GetDatabaseClient(state).raised)
           => pc = "started"
    /\ pc = "created" =>
           /\ GetText2sqlService(state).raised
           /\ GetDatabaseClient(state).raised
    /\ pc = "stopped" =>
           /\ GetText2sqlService(state).raised
           /\ GetDatabaseClient(state).raised
           /\ pending["singleton"].status = "closed"

\* C40: every connection taken from a pool by execute_query or test_connection
\* is given back before the call returns or raises: a pool's checked-out
\* connections are those of the calls in progress on it, never more than the
\* worker threads and so never more than the pool's maximum, and none when no
\* call is in progress.
C40_ConnectionsReturned ==
    /\ Cardinality(running) <= MaxWorkers
    /\ \A p \in DOMAIN pending :
           /\ pending[p].used
                  = Cardinality({c \in running :
                                    (c.call = "test_connection") <=> (p = "singleton")})
           /\ pending[p].used <= MaxConnections
           /\ running = {} => pending[p].used = 0

\* a call whose query raised has ended and nothing is checked out
C40_Witness ==
    /\ pc = "started"
    /\ route = "raised"
    /\ running = {}
    /\ pending["executor"].used = 0
    /\ pending["singleton"].used = 0

\* C34: every SQL text the execution step hands to the query executor is the
\* normalizer's output for the query generated last, and so ends with a clause
\* LIMIT n with n <= 1000; the generated text as it came is never executed,
\* on the forced-forward path after an exhausted retry budget either.
C34_OnlyNormalizedExecuted ==
    \A i \in 1..Len(log) :
        (log[i].node = "execute_sql" /\ log[i].called = 1) =>
            LET s   == log[i].read
                sql == executed[Cardinality({j \in 1..i : log[j].node = "execute_sql"
                                                             /\ log[j].called = 1})]
                clause(t, a, b) ==
                    /\ Upper(SubSeq(t, a, a + 4)) = LimitWord
                    /\ a = 1 \/ ~IsWordChar(t[a - 1])
                    /\ \A k \in (a + 5)..b : t[k] \in Whitespace
                    /\ \A k \in (b + 1)..Len(t) : IsDigit(t[k])
            IN  /\ sql = CleanSqlQuery(Get(s, "generated_sql_query", <<>>))
                /\ \E a \in 1..Len(sql) : \E b \in (a + 5)..(Len(sql) - 1) :
                       /\ clause(sql, a, b)
                       /\ TextToInt(SubSeq(sql, b + 1, Len(sql))) <= MAX_QUERY_ROWS

\* C35: in a run started with retry_count = 0 and max_iterations >= 1 no step
\* of the run lowers the retry_count of the state, and after every step
\* retry_count <= max_iterations.
C35_RetryCountBounded ==
    [][("retry_count" \in DOMAIN state') =>
            /\ state'["retry_count"] >= 0
            /\ state'["retry_count"] <= state'["max_iterations"]
            /\ ("retry_count" \in DOMAIN state) =>
                   /\ state'["retry_count"] >= state["retry_count"]
                   /\ state'["max_iterations"] = state["max_iterations"]
            /\ ("retry_count" \in DOMAIN result') =>
                   result'["retry_count"] <= state'["max_iterations"]]_vars

\* the budget has been used up without a valid query and the run went on
C35_Witness ==
    /\ pc = "done"
    /\ ~valid_seen
    /\ state["max_iterations"] = MaxIterations
    /\ state["retry_count"] = MaxIterations
    /\ result["retry_count"] = MaxIterations
    /\ invoked["execute_sql"] = 1

\* C36: the two ways out of the router exclude each other and each is taken at
\* most once in a run: handle_unanswerable and execute_sql are never both
\* invoked, neither is invoked twice, and once either has been invoked
\* generate_sql and the validation step are not invoked again.
C36_RouterExitOnce ==
    [][/\ invoked'["handle_unanswerable"] + invoked'["execute_sql"] <= 1
       /\ (invoked["handle_unanswerable"] + invoked["execute_sql"] >= 1) =>
              /\ invoked'["generate_sql"] = invoked["generate_sql"]
              /\ invoked'["validate_sql_query"] = invoked["validate_sql_query"]
       /\ \A n \in {"handle_unanswerable", "execute_sql"} :
              invoked'[n] > invoked[n] =>
                  /\ "validate_sql_query" \in DOMAIN pending
                  /\ invoked'["generate_sql"] = invoked["generate_sql"]]_vars

\* a refusal on the second iteration: the run ended in handle_unanswerable
\* and nothing was executed
C36_Witness ==
    /\ pc = "done"
    /\ invoked["handle_unanswerable"] = 1
    /\ invoked["execute_sql"] = 0
    /\ invoked["generate_sql"] = 2
    /\ invoked["validate_sql_query"] = 2

\* C37: the follow-up step is invoked at most once in a run and exactly once in
\* every run that completes, however often the validate -> generate loop
\* repeats: a return to generate_sql never starts the follow-up step again.
C37_FollowupOnce ==
    [][/\ invoked'["get_followup_que"] <= 1
       /\ pc' = "done" =>
              /\ invoked'["get_followup_que"] = 1
              /\ Cardinality({i \in 1..Len(log') : log'[i].node = "get_followup_que"
                                                      /\ ~log'[i].raised}) = 1
       /\ (invoked["generate_sql"] >= 1
               /\ invoked'["generate_sql"] > invoked["generate_sql"]) =>
              invoked'["get_followup_que"] = invoked["get_followup_que"]]_vars

\* a run that went round the loop and completed: one follow-up execution
C37_Witness ==
    /\ pc = "done"
    /\ invoked["generate_sql"] = MaxIterations
    /\ invoked["get_followup_que"] = 1
    /\ "followup_que" \in DOMAIN result

\* C38: process_query given an empty or whitespace-only input_text fails with
\* a Text2SQLException of error_code VALIDATION_ERROR before the workflow is
\* invoked, no step run and no collaborator called (a run is started for a
\* question with text in it only); and every failure of process_query, of
\* whatever cause, reaches the caller as a Text2SQLException.
C38_BlankInputRejected ==
    LET started == pc \in {"running", "done"} \/ state # EmptyDict \/ Len(log) > 0
    IN  /\ pc = "failed" => error.cls = "Text2SQLException"
        /\ pc # "failed" => error = NoException
        /\ started =>
               /\ request # NoRequest
               /\ request.input_text \in Inputs
               /\ \E i \in 1..Len(request.input_text) :
                      request.input_text[i] \notin Whitespace
        /\ (pc = "failed" /\ ~started) =>
               /\ error.error_code = "VALIDATION_ERROR"
               /\ error.root = "ValueError"
               /\ request = NoRequest
               /\ \A n \in Nodes : invoked[n] = 0 /\ collab[n] = 0
               /\ executed = <<>>

\* the call was refused: nothing ran
C38_Witness ==
    /\ pc = "failed"
    /\ state = EmptyDict
    /\ log = <<>>
    /\ error.cls = "Text2SQLException"
    /\ error.error_code = "VALIDATION_ERROR"
    /\ invoked["get_metadata"] = 0
=============================================================================
